---- MODULE Spec2Model ----
(***************************************************************************)
(* A model of the MSL shader compiler core of visionary-3d/minimal:        *)
(* the binding allocator, the metadata diff engine, the expression         *)
(* evaluator, the resource and entry-point parsers and the code            *)
(* transformation of src/unnamed/part_002, the Shader of                   *)
(* src/unnamed/part_000 and the Composer of src/src/core/Pass.ts.          *)
(*                                                                         *)
(* Text is modelled at the level of tokens: a decorator's content is a     *)
(* sequence of tokens (numbers, operators, parentheses, commas, wildcard   *)
(* references), whitespace-separated in the source. Numbers are exact      *)
(* rationals [n, d] (d > 0, lowest terms).                                 *)
(***************************************************************************)
EXTENDS Integers, Sequences, FiniteSets, TLC

VARIABLES
    allocIn,    \* allocator: the declarations of the source, in source order
    allocOut,   \* allocator: the list parseResources returns
    allocPc,    \* allocator: "input" before parseResources ran, "done" after
    hotSrc,     \* hot reload: the current source, [entry, decls]
    hotWild,    \* hot reload: the wildcards of the shader
    oldParsed,  \* hot reload: the ShaderMetadata of the previous parse
    parsed,     \* hot reload: the ShaderMetadata of the current parse
    diff,       \* hot reload: the last ShaderMetadataDiff
    hotPc,      \* hot reload: "constructed" until the first reload, then "reloaded"
    window,     \* the browser window, [innerWidth, innerHeight]
    outputs,    \* hot reload: the outputs Map of the shader, a set of [name, object]
    evalIn,     \* evaluator: the expression, a sequence of tokens
    evalDims,   \* evaluator: the expectedDimensions of evaluateResolutionExpression
    evalOut,    \* evaluator: what the function returned, or that it threw
    evalPc,     \* evaluator: "input", then the function that ran
    parseIn,    \* parser: a declaration line or a source
    parseOut,   \* parser: what the parser returned, or that it threw
    parsePc,    \* parser: "input", then "done"
    shaders,    \* composer: Composer.shaders, the list of the names of its shaders
    nodes,      \* composer: the Shader objects by name
    device,     \* composer: the GPU device, [created, destroyed]
    resolutionWildcard  \* composer: the WildCard of the shaders, [value, shaders]

allocVars == <<allocIn, allocOut, allocPc>>
hotVars == <<hotSrc, hotWild, oldParsed, parsed, diff, hotPc, window, outputs>>
evalVars == <<evalIn, evalDims, evalOut, evalPc>>
parseVars == <<parseIn, parseOut, parsePc>>
composerVars == <<shaders, nodes, device, resolutionWildcard>>

vars == <<allocIn, allocOut, allocPc, hotSrc, hotWild, oldParsed, parsed, diff, hotPc, window,
          outputs,
          evalIn, evalDims, evalOut, evalPc, parseIn, parseOut, parsePc,
          shaders, nodes, device, resolutionWildcard>>

(***************************************************************************)
(* Bounds.                                                                 *)
(***************************************************************************)
MaxDecls == 3
MaxBinding == 2
MaxHotDecls == 2
MaxEntryDecls == 1
MaxTokens == 3
MaxDims == 3
MaxSizeParams == 3
MaxComponents == 4
MaxMixedDecls == 2
MaxBufferSizeParams == 2
MaxObjects == 9

(***************************************************************************)
(* Generic helpers.                                                        *)
(***************************************************************************)
RECURSIVE SeqsUpTo(_, _)
SeqsUpTo(S, n) ==
    IF n = 0 THEN {<<>>}
    ELSE LET shorter == SeqsUpTo(S, n - 1)
         IN  shorter \cup {Append(s, x) : s \in {t \in shorter : Len(t) = n - 1}, x \in S}

Range(s) == {s[i] : i \in 1..Len(s)}

SetMax(S) == CHOOSE m \in S : \A x \in S : x <= m

SetMin(S) == CHOOSE m \in S : \A x \in S : m <= x

(***************************************************************************)
(* Resources.  RESOURCE_TYPE and the ResourceBase fields.                  *)
(***************************************************************************)
TEX == "texture"
BUF == "buffer"
UNI == "uniform"
SAMP == "sampler"
REF == "ref"

\* the order in which parseResources concatenates the kinds
KindOrder == <<TEX, BUF, UNI, SAMP, REF>>

\* `decorators.group || 0`: an absent decorator (<<>>) and a parsed 0 both give 0
GroupOrDefault(dec) == IF dec = <<>> \/ dec[1] = 0 THEN 0 ELSE dec[1]

\* `decorators.binding || -1`: an absent decorator (<<>>) and a parsed 0 both give -1
BindingOrUnassigned(dec) == IF dec = <<>> \/ dec[1] = 0 THEN -1 ELSE dec[1]

(***************************************************************************)
(* computeBindingIndices.                                                  *)
(***************************************************************************)
\* the `while` of getNextBinding: skip every value an input resource of the
\* group carries as its binding
RECURSIVE SkipClaimed(_, _, _)
SkipClaimed(resources, group, n) ==
    IF \E i \in 1..Len(resources) :
           resources[i].binding = n /\ resources[i].group = group
    THEN SkipClaimed(resources, group, n + 1)
    ELSE n

\* mutant: no skipping of explicitly claimed bindings
GetNextBindingNoSkip(resources, groupBindings, group) ==
    groupBindings[group]

\* mutant: "max + 1" instead of first fit
GetNextBindingMaxPlusOne(resources, groupBindings, group) ==
    LET claimed == {resources[i].binding : i \in {j \in 1..Len(resources) : resources[j].group = group}}
                   \cup {groupBindings[group] - 1}
    IN  SetMax(claimed) + 1

\* getNextBinding: the value returned; the counter is left at this value + 1
GetNextBinding(resources, groupBindings, group) ==
    SkipClaimed(resources, group, groupBindings[group])

\* resources.map(...): left to right, the per-group counters threaded through
RECURSIVE AssignBindings(_, _, _)
\* resource i takes binding b and the counter of its group moves past b
AssignNext(resources, i, groupBindings, b) ==
    <<[resources[i] EXCEPT !.binding = b]>>
    \o AssignBindings(resources, i + 1, [groupBindings EXCEPT ![resources[i].group] = b + 1])

AssignBindings(resources, i, groupBindings) ==
    IF i > Len(resources) THEN <<>>
    ELSE IF resources[i].binding = -1
         THEN AssignNext(resources, i, groupBindings,
                         GetNextBinding(resources, groupBindings, resources[i].group))
         ELSE <<resources[i]>> \o AssignBindings(resources, i + 1, groupBindings)

\* the comparator as a mutation would have it: the group is ignored
BindingOrderLessByBinding(a, b) == a.binding < b.binding

\* the comparator of the final sort
BindingOrderLess(a, b) ==
    IF a.group # b.group THEN a.group < b.group ELSE a.binding < b.binding

\* Array.prototype.sort is stable: insert each element after the last one
\* that is not greater
RECURSIVE InsertSorted(_, _)
InsertSorted(sorted, r) ==
    IF sorted = <<>> THEN <<r>>
    ELSE IF BindingOrderLess(r, Head(sorted)) THEN <<r>> \o sorted
    ELSE <<Head(sorted)>> \o InsertSorted(Tail(sorted), r)

RECURSIVE SortByGroupBinding(_)
SortByGroupBinding(s) ==
    IF s = <<>> THEN <<>>
    ELSE InsertSorted(SortByGroupBinding(SubSeq(s, 1, Len(s) - 1)), s[Len(s)])

computeBindingIndices(resources) ==
    IF Len(resources) = 0 THEN <<>>
    ELSE LET maxGroupIndex == SetMax({resources[i].group : i \in 1..Len(resources)})
             groupBindings == [g \in 0..maxGroupIndex |-> 0]
         IN  SortByGroupBinding(AssignBindings(resources, 1, groupBindings))

(***************************************************************************)
(* Numbers.  A JS number is modelled as [k, n, d, neg]: k = "fin" is the    *)
(* rational n/d (d > 0, lowest terms; neg is the sign, which a zero keeps   *)
(* as IEEE 754 does), k = "inf" is +Infinity or -Infinity by neg, and       *)
(* k = "nan" is NaN.  Values that leave the evaluator are finite and are    *)
(* kept as rationals [n, d], where the sign of a zero no longer shows.      *)
(* Rounding is not modelled: a quotient is the exact rational.              *)
(***************************************************************************)
\* exact rationals
Rat(n, d) == [n |-> n, d |-> d]
R(n) == Rat(n, 1)

\* the value undefined where a number is expected (an array read out of range)
Undefined == Rat(0, 0)

Abs(x) == IF x < 0 THEN -x ELSE x

RECURSIVE GCD(_, _)
GCD(a, b) == IF b = 0 THEN a ELSE GCD(b, a % b)

Fin(n, d, neg) ==
    LET g == GCD(Abs(n), Abs(d))
        s == IF d < 0 THEN -1 ELSE 1
    IN  [k |-> "fin", n |-> (s * n) \div g, d |-> (s * d) \div g, neg |-> neg]
Inf(neg) == [k |-> "inf", n |-> 0, d |-> 1, neg |-> neg]
NaN == [k |-> "nan", n |-> 0, d |-> 1, neg |-> FALSE]

FromRat(r) == Fin(r.n, r.d, r.n < 0)
ToRat(a) == Rat(a.n, a.d)
IsZero(a) == a.k = "fin" /\ a.n = 0

\* unary minus
Negate(a) ==
    IF a.k = "nan" THEN NaN ELSE [a EXCEPT !.n = -a.n, !.neg = ~a.neg]

\* a + b
Plus(a, b) ==
    IF a.k = "nan" \/ b.k = "nan" THEN NaN
    ELSE IF a.k = "inf" /\ b.k = "inf" THEN (IF a.neg = b.neg THEN a ELSE NaN)
    ELSE IF a.k = "inf" THEN a
    ELSE IF b.k = "inf" THEN b
    ELSE LET n == a.n * b.d + b.n * a.d
         IN  Fin(n, a.d * b.d,
                 IF n = 0 THEN IsZero(a) /\ IsZero(b) /\ a.neg /\ b.neg ELSE n < 0)

\* a - b
Minus(a, b) == Plus(a, Negate(b))

\* a * b
Times(a, b) ==
    IF a.k = "nan" \/ b.k = "nan" THEN NaN
    ELSE IF (a.k = "inf" /\ IsZero(b)) \/ (IsZero(a) /\ b.k = "inf") THEN NaN
    ELSE IF a.k = "inf" \/ b.k = "inf" THEN Inf(a.neg # b.neg)
    ELSE Fin(a.n * b.n, a.d * b.d, a.neg # b.neg)

\* a / b
DividedBy(a, b) ==
    IF a.k = "nan" \/ b.k = "nan" THEN NaN
    ELSE IF a.k = "inf" /\ b.k = "inf" THEN NaN
    ELSE IF a.k = "inf" THEN Inf(a.neg # b.neg)
    ELSE IF b.k = "inf" THEN Fin(0, 1, a.neg # b.neg)
    ELSE IF IsZero(b) THEN (IF IsZero(a) THEN NaN ELSE Inf(a.neg # b.neg))
    ELSE Fin(a.n * b.d, a.d * b.n, a.neg # b.neg)

ApplyOp(op, a, b) ==
    CASE op = "+" -> Plus(a, b)
      [] op = "-" -> Minus(a, b)
      [] op = "*" -> Times(a, b)
      [] op = "/" -> DividedBy(a, b)

(***************************************************************************)
(* Expressions.  The text of an expression is a sequence of tokens, written *)
(* in the source with white space between them: a numeric literal (a        *)
(* non-negative decimal in its shortest form), one of + - * /, a            *)
(* parenthesis, a comma, or a wildcard reference info.<name> with an        *)
(* optional swizzle (a sequence of component letters).                      *)
(***************************************************************************)
Num(n, d) == [t |-> "num", n |-> n, d |-> d, name |-> "", sw |-> <<>>]
Op(o) == [t |-> o, n |-> 0, d |-> 1, name |-> "", sw |-> <<>>]
LP == Op("(")
RP == Op(")")
COMMA == Op(",")
Wc(name, sw) == [t |-> "wc", n |-> 0, d |-> 1, name |-> name, sw |-> sw]

IsOp(tok) == tok.t \in {"+", "-", "*", "/"}

\* a result of a function that may throw
Ok(v) == [ok |-> TRUE, v |-> v]
Throw == [ok |-> FALSE, v |-> <<>>]

(***************************************************************************)
(* Function(`return ${cleanExpression}`)(): the JS expression grammar over *)
(* the characters evaluateMathExpression lets through.  A parse is          *)
(* [ok, v, rest]: the value of the longest expression at the head of the   *)
(* tokens and the tokens after it; ok = FALSE is a SyntaxError.  A token    *)
(* left over after a complete expression is a SyntaxError or a call of a   *)
(* number (a TypeError), and a / where an operand is expected starts a      *)
(* regular expression literal, which no arithmetic turns into a finite     *)
(* number: all of these end in the catch block.                            *)
(***************************************************************************)
Parsed(v, rest) == [ok |-> TRUE, v |-> v, rest |-> rest]
SyntaxError == [ok |-> FALSE, v |-> NaN, rest |-> <<>>]

RECURSIVE AdditiveExpression(_)
RECURSIVE AdditiveRest(_, _)
RECURSIVE MultiplicativeRest(_, _)
RECURSIVE UnaryExpression(_)

\* ( Expression ): r is the parse of what follows the opening parenthesis
Parenthesized(r) ==
    IF r.ok /\ r.rest # <<>> /\ Head(r.rest).t = ")"
    THEN Parsed(r.v, Tail(r.rest))
    ELSE SyntaxError

PrimaryExpression(toks) ==
    IF toks = <<>> THEN SyntaxError
    ELSE IF Head(toks).t = "num"
         THEN Parsed(FromRat(Rat(Head(toks).n, Head(toks).d)), Tail(toks))
    ELSE IF Head(toks).t = "(" THEN Parenthesized(AdditiveExpression(Tail(toks)))
    ELSE SyntaxError

\* + UnaryExpression, - UnaryExpression: r is the parse of the operand
Signed(sign, r) ==
    IF ~r.ok THEN SyntaxError
    ELSE Parsed(IF sign = "-" THEN Negate(r.v) ELSE r.v, r.rest)

UnaryExpression(toks) ==
    IF toks # <<>> /\ Head(toks).t \in {"+", "-"}
    THEN Signed(Head(toks).t, UnaryExpression(Tail(toks)))
    ELSE PrimaryExpression(toks)

\* acc op r, and the operators that follow: r is the parse of the right operand
MultiplicativeStep(op, acc, r) ==
    IF ~r.ok THEN SyntaxError ELSE MultiplicativeRest(ApplyOp(op, acc, r.v), r.rest)

MultiplicativeRest(acc, toks) ==
    IF toks # <<>> /\ Head(toks).t \in {"*", "/"}
    THEN MultiplicativeStep(Head(toks).t, acc, UnaryExpression(Tail(toks)))
    ELSE Parsed(acc, toks)

\* r is the parse of the first operand
MultiplicativeFrom(r) ==
    IF ~r.ok THEN SyntaxError ELSE MultiplicativeRest(r.v, r.rest)

MultiplicativeExpression(toks) == MultiplicativeFrom(UnaryExpression(toks))

AdditiveStep(op, acc, r) ==
    IF ~r.ok THEN SyntaxError ELSE AdditiveRest(ApplyOp(op, acc, r.v), r.rest)

AdditiveRest(acc, toks) ==
    IF toks # <<>> /\ Head(toks).t \in {"+", "-"}
    THEN AdditiveStep(Head(toks).t, acc, MultiplicativeExpression(Tail(toks)))
    ELSE Parsed(acc, toks)

AdditiveFrom(r) ==
    IF ~r.ok THEN SyntaxError ELSE AdditiveRest(r.v, r.rest)

AdditiveExpression(toks) == AdditiveFrom(MultiplicativeExpression(toks))

CountOf(toks, t) == Cardinality({i \in 1..Len(toks) : toks[i].t = t})

\* the result of Function(...)(), r being the parse of the whole expression: a
\* finite number, or the catch block
FiniteResult(r) ==
    IF r.ok /\ r.rest = <<>> /\ r.v.k = "fin" THEN Ok(ToRat(r.v)) ELSE Throw

\* evaluateMathExpression: Ok(the number) or Throw
evaluateMathExpression(expression) ==
    IF expression = <<>> THEN Ok(R(0))
    ELSE IF Len(expression) = 1 /\ expression[1].t = "num" /\ expression[1].d = 1
         THEN Ok(R(expression[1].n))
    ELSE IF \E i \in 1..Len(expression) : expression[i].t \in {",", "wc"} THEN Throw
    ELSE IF CountOf(expression, "(") # CountOf(expression, ")") THEN Throw
    ELSE FiniteResult(AdditiveExpression(expression))

(***************************************************************************)
(* Wildcards.  A wildcard is [name, value], value a list of numbers; the    *)
(* wildcards of a parse are a list.                                        *)
(***************************************************************************)
WildCard(name, value) == [name |-> name, value |-> value]

\* wildcards.find((w) => w.name === wildcardName): <<>> or <<the wildcard>>
FindWildcard(wildcards, name) ==
    LET hits == SelectSeq(wildcards, LAMBDA w : w.name = name)
    IN  IF hits = <<>> THEN <<>> ELSE <<Head(hits)>>

\* SWIZZLE_COMPONENTS, as a mutation would have it: every letter selects
\* component 0
SwizzleIndexAlwaysFirst(component) == 0

\* SWIZZLE_COMPONENTS
SwizzleIndex(component) ==
    CASE component \in {"x", "r"} -> 0
      [] component \in {"y", "g"} -> 1
      [] component \in {"z", "b"} -> 2
      [] component \in {"w", "a"} -> 3

\* value[idx] of a JS array: undefined out of range
At(value, idx) == IF idx + 1 \in 1..Len(value) THEN value[idx + 1] ELSE Undefined

\* getSwizzledValue for the accessor of a wildcard reference, which is a dot
\* and component letters: one value per letter
getSwizzledValue(value, accessor) ==
    IF accessor = <<>> THEN value
    ELSE [i \in 1..Len(accessor) |-> At(value, SwizzleIndex(accessor[i]))]

\* Number.prototype.toString as the tokens it puts into an expression: a
\* negative number reads as a minus sign and a literal
NumberToString(v) ==
    IF v.n < 0 THEN <<Op("-"), Num(-v.n, v.d)>> ELSE <<Num(v.n, v.d)>>

\* evalExp.replace(fullMatch, text): the first occurrence is replaced
ReplaceFirst(evalExp, fullMatch, text) ==
    LET at == {i \in 1..Len(evalExp) : evalExp[i] = fullMatch}
    IN  IF at = {} THEN evalExp
        ELSE LET i == SetMin(at)
             IN  SubSeq(evalExp, 1, i - 1) \o text \o SubSeq(evalExp, i + 1, Len(evalExp))

\* evalExp.split(","): the segments between the commas
RECURSIVE Split(_)
Split(toks) ==
    LET commas == {i \in 1..Len(toks) : toks[i].t = ","}
    IN  IF commas = {} THEN <<toks>>
        ELSE LET i == SetMin(commas)
             IN  <<SubSeq(toks, 1, i - 1)>> \o Split(SubSeq(toks, i + 1, Len(toks)))

\* a result put in front of a list of results: Throw when either threw
Cons(first, others) ==
    IF first.ok /\ others.ok THEN Ok(<<first.v>> \o others.v) ELSE Throw

\* exps.map(evaluateMathExpression): Throw as soon as one throws
RECURSIVE MapEvaluate(_)
MapEvaluate(exps) ==
    IF exps = <<>> THEN Ok(<<>>)
    ELSE Cons(evaluateMathExpression(Head(exps)), MapEvaluate(Tail(exps)))

\* values.map((v) => evaluateMathExpression(evalExp.replace(fullMatch, v.toString())))
Broadcast(values, evalExp, fullMatch) ==
    IF \E i \in 1..Len(values) : values[i] = Undefined THEN Throw
    ELSE MapEvaluate([i \in 1..Len(values) |->
                         ReplaceFirst(evalExp, fullMatch, NumberToString(values[i]))])

\* the loop of evaluateWildcardExpression over the matches and what follows it
RECURSIVE ReplaceWildcards(_, _, _)
ReplaceWildcards(matches, evalExp, wildcards) ==
    IF matches = <<>> THEN MapEvaluate(Split(evalExp))
    ELSE LET fullMatch == Head(matches)
             wildcard == FindWildcard(wildcards, fullMatch.name)
         IN  IF wildcard = <<>> THEN Throw
             ELSE LET values == IF fullMatch.sw # <<>>
                                THEN getSwizzledValue(wildcard[1].value, fullMatch.sw)
                                ELSE wildcard[1].value
                  IN  IF Len(values) = 1
                      THEN IF values[1] = Undefined THEN Throw
                           ELSE ReplaceWildcards(Tail(matches),
                                    ReplaceFirst(evalExp, fullMatch, NumberToString(values[1])),
                                    wildcards)
                      ELSE Broadcast(values, evalExp, fullMatch)

\* evaluateWildcardExpression: Ok(the list of numbers) or Throw
evaluateWildcardExpression(expression, wildcards) ==
    LET matches == SelectSeq(expression, LAMBDA tok : tok.t = "wc")
    IN  IF matches = <<>>
        THEN Cons(evaluateMathExpression(expression), Ok(<<>>))
        ELSE ReplaceWildcards(matches, expression, wildcards)

\* Array(n).fill(value)
Fill(n, value) == [i \in 1..n |-> value]
Filled(n, value) == IF value.ok THEN Ok(Fill(n, value.v)) ELSE Throw

\* evaluateResolutionExpression: Ok(the list of numbers) or Throw.  A name is
\* atomic here; a reference whose name only starts with a wildcard's name
\* throws on either path of the code.
evaluateResolutionExpression(input, expectedDimensions, wildcards) ==
    IF Len(input) = 1 /\ input[1].t = "num" /\ input[1].d = 1
    THEN Ok(Fill(expectedDimensions, R(input[1].n)))
    ELSE IF \E i \in 1..Len(wildcards), j \in 1..Len(input) :
               input[j].t = "wc" /\ input[j].name = wildcards[i].name
         THEN evaluateWildcardExpression(input, wildcards)
         ELSE Filled(expectedDimensions, evaluateMathExpression(input))

(***************************************************************************)
(* Declarations.  A declaration line is a record of what its patterns       *)
(* capture: the kind (the creator decorator), the identifier, the type,     *)
(* the @group and @binding decorators (<<>> when absent, <<n>> when         *)
(* parseInt yields n) and the decorators of the kind.  The content of a     *)
(* decorator with an expression is <<>> when the decorator is absent and    *)
(* <<tokens>> when present.  The decorators of a line are written in the    *)
(* order size, format, stride, group, binding, but for bindingFirst, which  *)
(* says that @binding is written before @group.  used says that the         *)
(* identifier occurs as a whole word in a function of the source, and       *)
(* spaceBeforeColon that whitespace stands between it and the colon.        *)
(***************************************************************************)
\* the line has as many ( as )
Balanced(content) ==
    content = <<>> \/ CountOf(content[1], "(") = CountOf(content[1], ")")

\* decoratorPattern: the group ([^\)]+) captures the content up to the first );
\* <<>> when the decorator is absent or nothing is captured
Capture(content) ==
    IF content = <<>> THEN <<>>
    ELSE LET closing == {i \in 1..Len(content[1]) : content[1][i].t = ")"}
             captured == IF closing = {} THEN content[1]
                         ELSE SubSeq(content[1], 1, SetMin(closing) - 1)
         IN  IF captured = <<>> THEN <<>> ELSE <<captured>>

\* a texture type is [base, param]: texture_2d<f32> is ["texture_2d", "f32"]
VALID_TEXTURE_TYPES ==
    {"texture_1d", "texture_2d", "texture_2d_array", "texture_3d", "texture_cube",
     "texture_cube_array", "texture_multisampled_2d", "texture_storage_1d",
     "texture_storage_2d", "texture_storage_2d_array", "texture_storage_3d",
     "texture_depth_2d", "texture_depth_2d_array", "texture_depth_cube",
     "texture_depth_cube_array", "texture_depth_multisampled_2d"}

\* the type names textureVariablePattern matches:
\* texture_(storage_)?(1d|2d|3d|cube)(_array)?
TextureVariableTypes ==
    {"texture_1d", "texture_2d", "texture_3d", "texture_cube",
     "texture_1d_array", "texture_2d_array", "texture_3d_array", "texture_cube_array",
     "texture_storage_1d", "texture_storage_2d", "texture_storage_3d", "texture_storage_cube",
     "texture_storage_1d_array", "texture_storage_2d_array", "texture_storage_3d_array",
     "texture_storage_cube_array"}

\* textureType.includes("1d"), includes("3d"), includes("array")
Includes1d(textureType) ==
    textureType.base \in {"texture_1d", "texture_1d_array", "texture_storage_1d",
                          "texture_storage_1d_array"}
Includes3d(textureType) ==
    textureType.base \in {"texture_3d", "texture_3d_array", "texture_storage_3d",
                          "texture_storage_3d_array"}
IncludesArray(textureType) ==
    textureType.base \in {"texture_1d_array", "texture_2d_array", "texture_3d_array",
                          "texture_cube_array", "texture_storage_1d_array",
                          "texture_storage_2d_array", "texture_storage_3d_array",
                          "texture_storage_cube_array", "texture_depth_2d_array",
                          "texture_depth_cube_array"}

getExpectedDimensions(textureType) ==
    IF Includes1d(textureType) THEN 1
    ELSE IF Includes3d(textureType) \/ IncludesArray(textureType) THEN 3
    ELSE 2

\* sizeParams.map((param) => evaluateResolutionExpression(param, 1, wildcards)).flat()
\* the lists of two results, one after the other: Throw when either threw
Flat(first, others) ==
    IF first.ok /\ others.ok THEN Ok(first.v \o others.v) ELSE Throw

RECURSIVE ResolveParams(_, _)
ResolveParams(params, wildcards) ==
    IF params = <<>> THEN Ok(<<>>)
    ELSE Flat(evaluateResolutionExpression(Head(params), 1, wildcards),
              ResolveParams(Tail(params), wildcards))

IsInteger(v) == v.d = 1
IsPositive(v) == v # Undefined /\ v.n > 0

\* the padding of validateAndResolveTextureSize, as a mutation would have it:
\* the first value is repeated
PadWithFirst(resolvedSizes, expectedDimensions) ==
    [i \in 1..expectedDimensions |->
        IF i <= Len(resolvedSizes) THEN resolvedSizes[i] ELSE At(resolvedSizes, 0)]

\* the padding loop of validateAndResolveTextureSize: the last value is repeated
PadWithLast(resolvedSizes, expectedDimensions) ==
    [i \in 1..expectedDimensions |->
        IF i <= Len(resolvedSizes) THEN resolvedSizes[i]
        ELSE At(resolvedSizes, Len(resolvedSizes) - 1)]

\* the forEach of validateAndResolveTextureSize over the padded sizes
ValidateSizes(resolvedSizes, textureType) ==
    IF \E i \in 1..Len(resolvedSizes) :
           \/ ~IsPositive(resolvedSizes[i])
           \/ IncludesArray(textureType) /\ i = 3 /\ ~IsInteger(resolvedSizes[i])
    THEN Throw
    ELSE Ok(resolvedSizes)

\* validateAndResolveTextureSize once the parameters are evaluated
CheckDimensions(resolved, expectedDimensions, textureType) ==
    IF ~resolved.ok THEN Throw
    ELSE IF Len(resolved.v) > expectedDimensions THEN Throw
    ELSE IF Len(resolved.v) < expectedDimensions /\ IncludesArray(textureType) THEN Throw
    ELSE ValidateSizes(IF Len(resolved.v) < expectedDimensions
                       THEN PadWithLast(resolved.v, expectedDimensions)
                       ELSE resolved.v,
                       textureType)

\* validateAndResolveTextureSize: Ok(the sizes) or Throw
validateAndResolveTextureSize(sizeParams, textureType, wildcards) ==
    CheckDimensions(ResolveParams(sizeParams, wildcards),
                    getExpectedDimensions(textureType), textureType)

\* extractWildcards over the size parameters: "info." + name of each wildcard a
\* parameter refers to, in order of first appearance
RECURSIVE Dedupe(_)
Dedupe(s) ==
    IF s = <<>> THEN <<>>
    ELSE LET front == Dedupe(SubSeq(s, 1, Len(s) - 1))
         IN  IF s[Len(s)] \in Range(front) THEN front ELSE Append(front, s[Len(s)])

RECURSIVE collectSizeWildcards(_, _)
collectSizeWildcards(sizeParams, wildcards) ==
    IF sizeParams = <<>> THEN <<>>
    ELSE LET param == Head(sizeParams)
             used == SelectSeq(wildcards,
                         LAMBDA w : \E j \in 1..Len(param) :
                                        param[j].t = "wc" /\ param[j].name = w.name)
         IN  Dedupe([i \in 1..Len(used) |-> used[i].name]
                    \o collectSizeWildcards(Tail(sizeParams), wildcards))

\* the binding order check of the texture, sampler and reference validators:
\* the line has @group and @binding, and @binding comes first
BindingBeforeGroup(line) ==
    line.group # <<>> /\ line.binding # <<>> /\ line.bindingFirst

\* validateTextureDeclaration: TRUE when it reports no error
validateTextureDeclaration(line) ==
    /\ line.size # <<>>
    /\ line.format # <<>>
    /\ Balanced(line.size)
    /\ ~BindingBeforeGroup(line)

\* parseTextureDeclaration: <<>> for null, else <<the TextureObject>>
TextureObject(line, index, resolution, sizeWildcards) ==
    IF ~resolution.ok THEN <<>>
    ELSE <<[resourceType |-> TEX, name |-> line.name,
            size |-> resolution.v,
            format |-> line.format[1], type |-> line.type,
            group |-> GroupOrDefault(line.group),
            binding |-> BindingOrUnassigned(line.binding),
            declarationIndex |-> index,
            wildcards |-> sizeWildcards,
            usedInBody |-> line.used]>>

ResolveTexture(line, index, sizeParams, wildcards) ==
    TextureObject(line, index,
                  validateAndResolveTextureSize(sizeParams, line.type, wildcards),
                  collectSizeWildcards(sizeParams, wildcards))

parseTextureDeclaration(line, index, wildcards) ==
    IF ~validateTextureDeclaration(line) THEN <<>>
    ELSE IF Capture(line.size) = <<>> THEN <<>>
    ELSE IF line.type.base \notin TextureVariableTypes THEN <<>>
    ELSE IF line.type.base \notin VALID_TEXTURE_TYPES THEN <<>>
    ELSE ResolveTexture(line, index, Split(Capture(line.size)[1]), wildcards)

\* a type is its base name and the text between its angle brackets: array<f32>
\* is ArrayOf("f32"); getBufferStride is the stride a structured<n> names
TypeOf(base, param) == [base |-> base, param |-> param]
ArrayOf(param) == TypeOf("array", param)
ArrayTypes == {ArrayOf("f32"), ArrayOf("u32"), ArrayOf("structured<16>")}
getBufferStride(bufferType) ==
    IF bufferType.param = "structured<16>" THEN <<16>> ELSE <<>>

\* the checks of validateAndResolveBufferSize on the evaluated size
ValidateBufferSize(resolvedSize, stride) ==
    IF ~resolvedSize.ok THEN Throw
    ELSE IF Len(resolvedSize.v) # 1 THEN Throw
    ELSE IF ~IsPositive(resolvedSize.v[1]) THEN Throw
    ELSE IF ~IsInteger(resolvedSize.v[1]) THEN Throw
    ELSE IF stride # <<>> /\ stride[1] # 0 /\ resolvedSize.v[1].n % stride[1] # 0 THEN Throw
    ELSE Ok(resolvedSize.v[1])

\* validateAndResolveBufferSize: Ok(the size) or Throw
validateAndResolveBufferSize(sizeParams, bufferType, wildcards) ==
    ValidateBufferSize(evaluateResolutionExpression(sizeParams[1], 1, wildcards),
                       getBufferStride(bufferType))

\* validateBufferDeclaration: TRUE when it reports no error
validateBufferDeclaration(line) ==
    /\ line.size # <<>>
    /\ line.access \in {"read", "read_write"}
    /\ line.type \in ArrayTypes
    /\ Balanced(line.size)

\* parseBufferDeclaration: <<>> for null, else <<the BufferObject>>
BufferObject(line, index, resolvedSize, sizeWildcards) ==
    IF ~resolvedSize.ok THEN <<>>
    ELSE <<[usedInBody |-> TRUE, resourceType |-> BUF, name |-> line.name,
            type |-> line.type, size |-> resolvedSize.v,
            stride |-> line.stride,
            group |-> GroupOrDefault(line.group),
            binding |-> BindingOrUnassigned(line.binding),
            declarationIndex |-> index, access |-> line.access,
            wildcards |-> sizeWildcards]>>

ResolveBuffer(line, index, sizeParams, wildcards) ==
    BufferObject(line, index,
                 validateAndResolveBufferSize(sizeParams, line.type, wildcards),
                 collectSizeWildcards(sizeParams, wildcards))

parseBufferDeclaration(line, index, wildcards) ==
    IF ~validateBufferDeclaration(line) THEN <<>>
    ELSE IF Capture(line.size) = <<>> THEN <<>>
    ELSE ResolveBuffer(line, index, Split(Capture(line.size)[1]), wildcards)

(***************************************************************************)
(* Uniforms.  A uniform line carries the struct definition the code has    *)
(* for its type (struct: <<>> when there is none, else <<fields>>, a field  *)
(* being [name, type], names distinct) and the nested decorators of        *)
(* @uniform(...) in the order written (values: [name, content]).           *)
(***************************************************************************)
\* componentCounts: <<>> for a type it does not have
componentCounts(fieldType) ==
    CASE fieldType = "f32" -> <<1>>
      [] fieldType = "vec2<f32>" -> <<2>>
      [] fieldType = "vec3<f32>" -> <<3>>
      [] fieldType = "vec4<f32>" -> <<4>>
      [] OTHER -> <<>>

\* the checks of validateAndResolveUniformValues on the evaluated values
CheckComponents(expectedComponents, resolvedValues) ==
    IF expectedComponents = <<>> THEN Throw
    ELSE IF ~resolvedValues.ok THEN Throw
    ELSE IF Len(resolvedValues.v) # expectedComponents[1] THEN Throw
    ELSE resolvedValues

CheckComponentsAtMost(expectedComponents, resolvedValues) ==
    IF expectedComponents = <<>> THEN Throw
    ELSE IF ~resolvedValues.ok THEN Throw
    ELSE IF Len(resolvedValues.v) > expectedComponents[1] THEN Throw
    ELSE resolvedValues

\* validateAndResolveUniformValues, as a mutation would have it: a list shorter
\* than the field passes
validateAndResolveUniformValuesAtMost(fieldType, values, wildcards) ==
    CheckComponentsAtMost(componentCounts(fieldType), ResolveParams(values, wildcards))

\* validateAndResolveUniformValues: Ok(the values) or Throw
validateAndResolveUniformValues(fieldType, values, wildcards) ==
    CheckComponents(componentCounts(fieldType), ResolveParams(values, wildcards))

\* getWGSLTypeSize of a scalar or vector type
getWGSLTypeSize(type) ==
    CASE type = "f32" -> 4
      [] type = "vec2<f32>" -> 8
      [] type = "vec3<f32>" -> 12
      [] type = "vec4<f32>" -> 16

\* parseUniformParameterDecorators: parameters[name] is the content of the last
\* nested decorator of that name that the pattern matches, split at the
\* commas; <<>> when there is none
FieldValues(values, name) ==
    LET matched == SelectSeq(values, LAMBDA p : p.name = name /\ Capture(<<p.content>>) # <<>>)
    IN  IF matched = <<>> THEN <<>>
        ELSE <<Split(Capture(<<matched[Len(matched)].content>>)[1])>>

\* the loop of parseUniformDeclaration over the fields of the struct, from
\* field i on: Ok([defaults, size, wildcards]) or Throw
WithField(field, resolved, fieldWildcards, others) ==
    IF ~resolved.ok \/ ~others.ok THEN Throw
    ELSE Ok([defaults |-> <<<<field.name, resolved.v>>>> \o others.v.defaults,
             size |-> getWGSLTypeSize(field.type) + others.v.size,
             wildcards |-> Dedupe(fieldWildcards \o others.v.wildcards)])

RECURSIVE ResolveFields(_, _, _, _)
ResolveField(structFields, values, wildcards, i, given) ==
    IF given = <<>> THEN Throw
    ELSE WithField(structFields[i],
                   validateAndResolveUniformValues(structFields[i].type, given[1], wildcards),
                   collectSizeWildcards(given[1], wildcards),
                   ResolveFields(structFields, values, wildcards, i + 1))

ResolveFields(structFields, values, wildcards, i) ==
    IF i > Len(structFields) THEN Ok([defaults |-> <<>>, size |-> 0, wildcards |-> <<>>])
    ELSE ResolveField(structFields, values, wildcards, i,
                      FieldValues(values, structFields[i].name))

\* parseUniformDeclaration: <<>> for null, else <<the UniformObject>>; defaults
\* is the list of the (field, values) entries of the JS object
UniformObject(line, index, fields) ==
    IF ~fields.ok THEN <<>>
    ELSE <<[usedInBody |-> TRUE, resourceType |-> UNI, name |-> line.name,
            type |-> line.type,
            defaults |-> fields.v.defaults,
            size |-> fields.v.size,
            group |-> GroupOrDefault(line.group),
            binding |-> BindingOrUnassigned(line.binding),
            declarationIndex |-> index, wildcards |-> fields.v.wildcards]>>

parseUniformDeclaration(line, index, wildcards) ==
    IF line.struct = <<>> THEN <<>>
    ELSE UniformObject(line, index, ResolveFields(line.struct[1], line.values, wildcards, 1))

(***************************************************************************)
(* Samplers and references: a line is its identifier, its decorators and    *)
(* the variant of what it declares.                                        *)
(***************************************************************************)
\* the object parseSamplerDeclaration returns; an optional parameter is <<>>
\* when undefined
SamplerObject(d, index) ==
    [usedInBody |-> TRUE, resourceType |-> SAMP, name |-> d.name,
     group |-> GroupOrDefault(d.group), binding |-> BindingOrUnassigned(d.binding),
     declarationIndex |-> index, wildcards |-> <<>>,
     addressModeU |-> <<>>, addressModeV |-> <<>>, addressModeW |-> <<>>,
     magFilter |-> IF d.variant = 1 THEN <<"linear">> ELSE <<"nearest">>,
     minFilter |-> <<>>, mipmapFilter |-> <<>>,
     lodMinClamp |-> <<>>, lodMaxClamp |-> <<>>, compare |-> <<>>, maxAnisotropy |-> <<>>]

\* the object parseReferenceDeclaration returns
ReferenceObject(d, index) ==
    [usedInBody |-> TRUE, resourceType |-> REF, name |-> d.name,
     type |-> TypeOf("texture_2d", "f32"), node |-> "other",
     ref |-> IF d.variant = 1 THEN "colorTex" ELSE "depthTex",
     category |-> "texture", access |-> <<>>,
     group |-> GroupOrDefault(d.group), binding |-> BindingOrUnassigned(d.binding),
     declarationIndex |-> index, wildcards |-> <<>>]

\* the declaration parser of the line's kind: <<>> for null, else <<the object>>
ResourceOf(d, index, wildcards) ==
    CASE d.kind = TEX -> parseTextureDeclaration(d, index, wildcards)
      [] d.kind = BUF -> parseBufferDeclaration(d, index, wildcards)
      [] d.kind = UNI -> parseUniformDeclaration(d, index, wildcards)
      [] d.kind = SAMP -> IF BindingBeforeGroup(d) THEN <<>> ELSE <<SamplerObject(d, index)>>
      [] d.kind = REF -> IF BindingBeforeGroup(d) THEN <<>> ELSE <<ReferenceObject(d, index)>>

\* parseTextures, ..., as a mutation would have them: the first declaration
\* that fails ends the list
RECURSIVE ParseKindStopAtNull(_, _, _, _)
ParseKindStopAtNull(decls, kind, index, wildcards) ==
    IF decls = <<>> THEN <<>>
    ELSE IF Head(decls).kind # kind
         THEN ParseKindStopAtNull(Tail(decls), kind, index, wildcards)
    ELSE IF ResourceOf(Head(decls), index, wildcards) = <<>> THEN <<>>
    ELSE ResourceOf(Head(decls), index, wildcards)
         \o ParseKindStopAtNull(Tail(decls), kind, index + 1, wildcards)

\* parseTextures, ..., as a mutation would have them: every declaration gets
\* the index of the first
RECURSIVE ParseKindSameIndex(_, _, _, _)
ParseKindSameIndex(decls, kind, index, wildcards) ==
    IF decls = <<>> THEN <<>>
    ELSE IF Head(decls).kind # kind
         THEN ParseKindSameIndex(Tail(decls), kind, index, wildcards)
    ELSE ResourceOf(Head(decls), index, wildcards)
         \o ParseKindSameIndex(Tail(decls), kind, index, wildcards)

\* parseTextures, parseBuffers, ...: the lines of one kind, in source order,
\* each parsed with its index among the lines of that kind, nulls filtered out
RECURSIVE ParseKind(_, _, _, _)
ParseKind(decls, kind, index, wildcards) ==
    IF decls = <<>> THEN <<>>
    ELSE (IF Head(decls).kind = kind THEN ResourceOf(Head(decls), index, wildcards) ELSE <<>>)
         \o ParseKind(Tail(decls), kind,
                      IF Head(decls).kind = kind THEN index + 1 ELSE index, wildcards)

\* the kinds parsed one after the other, each from index 0
RECURSIVE ParseKinds(_, _, _)
ParseKinds(decls, kinds, wildcards) ==
    IF kinds = <<>> THEN <<>>
    ELSE ParseKind(decls, Head(kinds), 0, wildcards) \o ParseKinds(decls, Tail(kinds), wildcards)

\* allResources of parseResources: textures, buffers, uniforms, samplers, references
ConcatKinds(decls, wildcards) == ParseKinds(decls, KindOrder, wildcards)

parseResources(decls, wildcards) == computeBindingIndices(ConcatKinds(decls, wildcards))

(***************************************************************************)
(* Entry points.  The entry decorators of a source are a record: compute   *)
(* and workgroupSize are the contents of @compute(...) and                 *)
(* @workgroup_size(...), fragment is what @fragment(...) holds, [canvas,    *)
(* size, view] (@canvas with or without a size, or the name of a texture),  *)
(* and resolve is the name in @resolve(...); each is <<>> when absent.      *)
(* The WGSL text parseShader also returns is not modelled.                  *)
(***************************************************************************)
DEFAULT_WORKGROUP_SIZES(dimension) ==
    CASE dimension = "1d" -> <<R(64), R(1), R(1)>>
      [] dimension = "2d" -> <<R(8), R(8), R(1)>>
      [] dimension = "3d" -> <<R(4), R(4), R(4)>>

\* getComputeDimension: <<>> when it throws
getComputeDimension(workgroupCount) ==
    CASE Len(workgroupCount) = 1 -> <<"1d">>
      [] Len(workgroupCount) = 2 -> <<"2d">>
      [] Len(workgroupCount) = 3 -> <<"3d">>
      [] OTHER -> <<>>

\* padTo3D, as a mutation would have it: padded with the last component
padTo3DWithLast(arr) == arr \o [i \in 1..(3 - Len(arr)) |-> arr[Len(arr)]]

\* padTo3D
padTo3D(arr) == arr \o [i \in 1..(3 - Len(arr)) |-> R(1)]

\* evaluateWildcardExpression(match[1], wildcards) of a pattern's match, which
\* is <<>> when the pattern does not match
EvaluateMatch(match, wildcards) ==
    IF match = <<>> THEN Throw ELSE evaluateWildcardExpression(match[1], wildcards)

\* parseComputeMetadata once the decorators are evaluated: rawSizes is read
\* only when @workgroup_size is there
ComputeMetadata(rawWorkgroupCount, workgroupSizeMatch, rawSizes) ==
    IF ~rawWorkgroupCount.ok THEN Throw
    ELSE IF getComputeDimension(rawWorkgroupCount.v) = <<>> THEN Throw
    ELSE IF workgroupSizeMatch # <<>> /\ ~rawSizes.ok THEN Throw
    ELSE IF workgroupSizeMatch # <<>> /\ Len(rawSizes.v) > Len(rawWorkgroupCount.v) THEN Throw
    ELSE Ok([type |-> getComputeDimension(rawWorkgroupCount.v)[1],
             workgroupSize |->
                 IF workgroupSizeMatch # <<>>
                 THEN padTo3D(rawSizes.v)
                 ELSE DEFAULT_WORKGROUP_SIZES(getComputeDimension(rawWorkgroupCount.v)[1]),
             threadCount |-> padTo3D(rawWorkgroupCount.v)])

\* parseComputeMetadata: Ok(the ComputeShaderMetadata) or Throw
parseComputeMetadata(entry, wildcards) ==
    IF Capture(entry.compute) = <<>> THEN Throw
    ELSE ComputeMetadata(EvaluateMatch(Capture(entry.compute), wildcards),
                         Capture(entry.workgroupSize),
                         EvaluateMatch(Capture(entry.workgroupSize), wildcards))

\* [window.innerWidth, window.innerHeight]
WindowSize == <<R(window.innerWidth), R(window.innerHeight)>>
MaxCanvasSize == 16384

\* validateCanvasSize: TRUE when it does not throw
validateCanvasSize(size) ==
    /\ Len(size) = 2
    /\ \A i \in 1..Len(size) :
          IsInteger(size[i]) /\ IsPositive(size[i]) /\ size[i].n <= MaxCanvasSize

\* parseFragmentMetadata once the canvas size is evaluated; withSize: @canvas
\* has a size
FragmentMetadata(entry, resources, withSize, canvasSize) ==
    LET fragment == entry.fragment[1]
        view == IF fragment.canvas THEN "canvas" ELSE fragment.view
        viewResource == SelectSeq(resources, LAMBDA r : r.name = view)
    IN  IF withSize /\ ~canvasSize.ok THEN Throw
        ELSE IF withSize /\ ~validateCanvasSize(canvasSize.v) THEN Throw
        ELSE IF fragment.canvas /\ entry.resolve # <<>> THEN Throw
        ELSE IF viewResource # <<>> /\ Head(viewResource).usedInBody THEN Throw
        ELSE Ok([view |-> view, resolveTarget |-> entry.resolve,
                 canvas |-> fragment.canvas,
                 canvasSize |-> IF fragment.canvas THEN <<canvasSize.v>> ELSE <<>>])

\* parseFragmentMetadata: Ok(the FragmentShaderMetadata) or Throw
parseFragmentMetadata(entry, resources, wildcards) ==
    FragmentMetadata(entry, resources,
                     entry.fragment[1].canvas /\ Capture(entry.fragment[1].size) # <<>>,
                     IF entry.fragment[1].canvas /\ Capture(entry.fragment[1].size) # <<>>
                     THEN EvaluateMatch(Capture(entry.fragment[1].size), wildcards)
                     ELSE Ok(WindowSize))

(***************************************************************************)
(* The transformed code.  It is modelled by what the later stages read of   *)
(* it: for each declaration line its identifier and the prefix put in       *)
(* front of it (<<>> when the line is left as it is, <<[group, binding]>>   *)
(* for "@group(g) @binding(b) "), and the text between the parentheses of   *)
(* the @workgroup_size injected before the entry point (<<>> when nothing   *)
(* is injected, <<tokens>> otherwise).                                      *)
(***************************************************************************)
\* line.split(":")[0] once the decorators are removed, as its words and the
\* runs of whitespace (" ") between them
BeforeColon(line) ==
    (CASE line.kind = BUF ->
              <<"var<storage,", " ",
                IF line.access = "read_write" THEN "read_write>" ELSE "read>", " ", line.name>>
       [] line.kind = UNI -> <<"var<uniform>", " ", line.name>>
       [] OTHER -> <<"var", " ", line.name>>)
    \o (IF line.spaceBeforeColon THEN <<" ">> ELSE <<>>)

\* beforeColon.split(/\s+/): a run of whitespace at the end leaves an empty
\* last word
RECURSIVE SplitWords(_)
SplitWords(pieces) ==
    LET spaces == {i \in 1..Len(pieces) : pieces[i] = " "}
    IN  IF spaces = {} THEN <<IF pieces = <<>> THEN "" ELSE pieces[1]>>
        ELSE <<IF SetMin(spaces) = 1 THEN "" ELSE pieces[1]>>
             \o SplitWords(SubSeq(pieces, SetMin(spaces) + 1, Len(pieces)))

\* resources.find((r) => r.name === name): <<>> or <<the first such resource>>
FindResource(resources, name) ==
    LET found == {i \in 1..Len(resources) : resources[i].name = name}
    IN  IF found = {} THEN <<>> ELSE <<resources[SetMin(found)]>>

\* the prefix a found resource gives the line
PrefixOf(resource) ==
    IF resource = <<>> THEN <<>>
    ELSE <<[group |-> resource[1].group, binding |-> resource[1].binding]>>

\* addGroupAndBinding: the nested decorators are removed before it, so the
\* line never includes @group
addGroupAndBinding(line, resources) ==
    LET words == SplitWords(BeforeColon(line))
    IN  IF words[Len(words)] = "" THEN <<>>
        ELSE PrefixOf(FindResource(resources, words[Len(words)]))

\* processCodeSection over the declaration lines
processCodeSection(decls, resources) ==
    [i \in 1..Len(decls) |->
        [name |-> decls[i].name, prefix |-> addGroupAndBinding(decls[i], resources)]]

\* `${computeDimension}d` as a key of DEFAULT_WORKGROUP_SIZES
DimensionKey(computeDimension) ==
    CASE computeDimension = 1 -> "1d"
      [] computeDimension = 2 -> "2d"
      [] computeDimension = 3 -> "3d"
      [] OTHER -> "other"

\* an identifier in a text of the transformed code
Ident(name) == [t |-> "id", n |-> 0, d |-> 1, name |-> name, sw |-> <<>>]

\* `${array}`: the numbers joined with commas
RECURSIVE JoinNumbers(_)
JoinNumbers(numbers) ==
    IF numbers = <<>> THEN <<>>
    ELSE <<Num(Head(numbers).n, Head(numbers).d)>>
         \o (IF Len(numbers) = 1 THEN <<>> ELSE <<COMMA>> \o JoinNumbers(Tail(numbers)))

\* `${DEFAULT_WORKGROUP_SIZES[key]}`
DefaultWorkgroupSizeText(key) ==
    IF key \in {"1d", "2d", "3d"} THEN JoinNumbers(DEFAULT_WORKGROUP_SIZES(key))
    ELSE <<Ident("undefined")>>

\* the dimension extractShaderMetadata computes from the content of @compute
ComputeDimensionOf(expression, wildcards) ==
    LET wildcardMatch == {i \in 1..Len(wildcards) :
                             \E j \in 1..Len(expression) :
                                 /\ expression[j].t = "wc"
                                 /\ expression[j].name = wildcards[i].name}
    IN  IF wildcardMatch # {} THEN Len(wildcards[SetMin(wildcardMatch)].value)
        ELSE Len(Split(expression))

\* extractShaderMetadata
extractShaderMetadata(entry, wildcards) ==
    [workgroupSize |-> Capture(entry.workgroupSize),
     isComputeShader |-> Capture(entry.compute) # <<>>,
     computeDimension |-> IF Capture(entry.compute) # <<>>
                          THEN ComputeDimensionOf(Capture(entry.compute)[1], wildcards)
                          ELSE 2]

\* the @workgroup_size transformToWGSL injects
InjectedWorkgroupSize(extracted) ==
    IF ~extracted.isComputeShader THEN <<>>
    ELSE IF extracted.workgroupSize # <<>> THEN extracted.workgroupSize
    ELSE <<DefaultWorkgroupSizeText(DimensionKey(extracted.computeDimension))>>

\* transformToWGSL
transformToWGSL(src, resources, wildcards) ==
    [declarations |-> processCodeSection(src.decls, resources),
     workgroupSize |-> InjectedWorkgroupSize(extractShaderMetadata(src.entry, wildcards))]

\* the ShaderMetadata parseShader returns, or Throw when the metadata threw
ShaderMetadata(type, metadata, resources, code) ==
    IF ~metadata.ok THEN Throw
    ELSE Ok([type |-> type, metadata |-> <<metadata.v>>, resources |-> resources,
             code |-> code])

\* parseShader as a mutation would have it: with both entry decorators the
\* compute decorator wins
ShaderOfComputeFirst(src, wildcards, resources, code) ==
    IF Capture(src.entry.compute) # <<>>
    THEN ShaderMetadata("compute", parseComputeMetadata(src.entry, wildcards), resources, code)
    ELSE IF src.entry.fragment # <<>>
    THEN ShaderMetadata("fragment",
                        parseFragmentMetadata(src.entry, resources, wildcards), resources, code)
    ELSE Ok([type |-> "resource", metadata |-> <<>>, resources |-> resources, code |-> code])

\* parseShader once the resources are parsed
ShaderOf(src, wildcards, resources, code) ==
    LET hasCompute == Capture(src.entry.compute) # <<>>
        hasFragment == src.entry.fragment # <<>>
    IN  IF hasCompute /\ hasFragment THEN Throw
        ELSE IF hasCompute
        THEN ShaderMetadata("compute", parseComputeMetadata(src.entry, wildcards), resources,
                            code)
        ELSE IF hasFragment
        THEN ShaderMetadata("fragment",
                            parseFragmentMetadata(src.entry, resources, wildcards), resources,
                            code)
        ELSE Ok([type |-> "resource", metadata |-> <<>>, resources |-> resources,
                 code |-> code])

\* parseShader once the resources are parsed: the code is transformed first
ShaderWithCode(src, wildcards, resources) ==
    ShaderOf(src, wildcards, resources, transformToWGSL(src, resources, wildcards))

\* parseShader: Ok(the ShaderMetadata) or Throw; metadata is <<>> when undefined
parseShader(src, wildcards) ==
    ShaderWithCode(src, wildcards, parseResources(src.decls, wildcards))

(***************************************************************************)
(* diffShaderMetadata and its helpers.                                     *)
(***************************************************************************)
\* getResourceKey: `${name}_${group}_${resourceType}`; the group is a number and
\* the resource type holds no underscore, so the string determines the triple
getResourceKey(resource) == <<resource.name, resource.group, resource.resourceType>>

arraysEqual(a, b) ==
    IF Len(a) # Len(b) THEN FALSE ELSE \A i \in 1..Len(a) : a[i] = b[i]

areTextureResourcesEqual(a, b) ==
    arraysEqual(a.size, b.size) /\ a.format = b.format /\ a.type = b.type

areBufferResourcesEqual(a, b) ==
    a.size = b.size /\ a.type = b.type /\ a.access = b.access /\ a.stride = b.stride

\* JSON.stringify(a.defaults) === JSON.stringify(b.defaults): the same entries
\* in the same order
areUniformResourcesEqual(a, b) ==
    a.type = b.type /\ a.defaults = b.defaults /\ a.size = b.size

areSamplerResourcesEqual(a, b) ==
    /\ a.addressModeU = b.addressModeU
    /\ a.addressModeV = b.addressModeV
    /\ a.addressModeW = b.addressModeW
    /\ a.magFilter = b.magFilter
    /\ a.minFilter = b.minFilter
    /\ a.mipmapFilter = b.mipmapFilter
    /\ a.lodMinClamp = b.lodMinClamp
    /\ a.lodMaxClamp = b.lodMaxClamp
    /\ a.compare = b.compare
    /\ a.maxAnisotropy = b.maxAnisotropy

areReferenceResourcesEqual(a, b) ==
    /\ a.node = b.node /\ a.ref = b.ref /\ a.type = b.type
    /\ a.category = b.category /\ a.access = b.access

areResourcesEqual(a, b) ==
    IF ~(/\ a.name = b.name
         /\ a.group = b.group
         /\ a.resourceType = b.resourceType
         /\ a.declarationIndex = b.declarationIndex
         /\ a.usedInBody = b.usedInBody
         /\ arraysEqual(a.wildcards, b.wildcards))
    THEN FALSE
    ELSE CASE a.resourceType = TEX -> areTextureResourcesEqual(a, b)
           [] a.resourceType = BUF -> areBufferResourcesEqual(a, b)
           [] a.resourceType = UNI -> areUniformResourcesEqual(a, b)
           [] a.resourceType = SAMP -> areSamplerResourcesEqual(a, b)
           [] a.resourceType = REF -> areReferenceResourcesEqual(a, b)
           [] OTHER -> TRUE

areResourcesEqualExceptBinding(a, b) ==
    areResourcesEqual([a EXCEPT !.binding = b.binding], b)

\* mutant: the thread count is left out of the comparison
areMetadataEqualNoThreadCount(before, after) ==
    IF before = <<>> /\ after = <<>> THEN TRUE
    ELSE IF before = <<>> \/ after = <<>> THEN FALSE
    ELSE LET b == before[1]
             a == after[1]
         IN  IF "workgroupSize" \in DOMAIN b /\ "workgroupSize" \in DOMAIN a
             THEN arraysEqual(b.workgroupSize, a.workgroupSize) /\ b.type = a.type
             ELSE IF "view" \in DOMAIN b /\ "view" \in DOMAIN a
             THEN /\ b.view = a.view
                  /\ b.resolveTarget = a.resolveTarget
                  /\ b.canvas = a.canvas
                  /\ b.canvasSize = a.canvasSize
             ELSE FALSE

\* areMetadataEqual; metadata is <<>> when undefined, <<m>> otherwise, and so are
\* the optional resolveTarget and canvasSize
areMetadataEqual(before, after) ==
    IF before = <<>> /\ after = <<>> THEN TRUE
    ELSE IF before = <<>> \/ after = <<>> THEN FALSE
    ELSE LET b == before[1]
             a == after[1]
         IN  IF "workgroupSize" \in DOMAIN b /\ "workgroupSize" \in DOMAIN a
             THEN /\ arraysEqual(b.workgroupSize, a.workgroupSize)
                  /\ arraysEqual(b.threadCount, a.threadCount)
                  /\ b.type = a.type
             ELSE IF "view" \in DOMAIN b /\ "view" \in DOMAIN a
             THEN /\ b.view = a.view
                  /\ b.resolveTarget = a.resolveTarget
                  /\ b.canvas = a.canvas
                  /\ (IF b.canvasSize # <<>> /\ a.canvasSize # <<>>
                      THEN arraysEqual(b.canvasSize[1], a.canvasSize[1])
                      ELSE b.canvasSize = a.canvasSize)
             ELSE FALSE

\* new Map(resources.map(r => [key, r])).get(key): the last resource under the
\* key, <<>> when there is none
MapGet(resources, key) ==
    LET hits == {i \in 1..Len(resources) : getResourceKey(resources[i]) = key}
    IN  IF hits = {} THEN <<>> ELSE <<resources[SetMax(hits)]>>

MapHas(resources, key) == MapGet(resources, key) # <<>>

\* the first loop of diffShaderMetadata, over before.resources from index i
RECURSIVE DiffBefore(_, _, _, _)
DiffBefore(beforeRes, afterRes, i, acc) ==
    IF i > Len(beforeRes) THEN acc
    ELSE LET beforeResource == beforeRes[i]
             got == MapGet(afterRes, getResourceKey(beforeResource))
         IN  IF got = <<>>
             THEN DiffBefore(beforeRes, afterRes, i + 1,
                      [acc EXCEPT !.deletions = Append(@, beforeResource)])
             ELSE LET afterResource == got[1]
                  IN  IF beforeResource.binding # afterResource.binding
                      THEN IF areResourcesEqualExceptBinding(beforeResource, afterResource)
                           THEN DiffBefore(beforeRes, afterRes, i + 1,
                                    [acc EXCEPT !.reorders = Append(@, afterResource)])
                           ELSE DiffBefore(beforeRes, afterRes, i + 1,
                                    [acc EXCEPT !.deletions = Append(@, beforeResource),
                                                !.additions = Append(@, afterResource)])
                      ELSE IF ~areResourcesEqual(beforeResource, afterResource)
                           THEN DiffBefore(beforeRes, afterRes, i + 1,
                                    [acc EXCEPT !.deletions = Append(@, beforeResource),
                                                !.additions = Append(@, afterResource)])
                           ELSE DiffBefore(beforeRes, afterRes, i + 1, acc)

\* the second loop, over after.resources from index i
RECURSIVE DiffAfter(_, _, _, _)
DiffAfter(beforeRes, afterRes, i, acc) ==
    IF i > Len(afterRes) THEN acc
    ELSE IF ~MapHas(beforeRes, getResourceKey(afterRes[i]))
         THEN DiffAfter(beforeRes, afterRes, i + 1,
                  [acc EXCEPT !.additions = Append(@, afterRes[i])])
         ELSE DiffAfter(beforeRes, afterRes, i + 1, acc)

diffShaderMetadata(before, after) ==
    LET result == [shaderReset |-> before.type # after.type
                                   \/ ~areMetadataEqual(before.metadata, after.metadata),
                   deletions |-> <<>>, additions |-> <<>>, reorders |-> <<>>]
    IN  DiffAfter(before.resources, after.resources, 1,
            DiffBefore(before.resources, after.resources, 1, result))

(***************************************************************************)
(* SpecHot: hot reload.  A shader is constructed from a source that        *)
(* parses.  Then the source is edited in one declaration or in its entry    *)
(* decorators, or a wildcard is set, or nothing changes, and the shader is  *)
(* reset: the source is parsed again and the new ShaderMetadata is diffed   *)
(* against the previous one, as Shader.reset does.                          *)
(***************************************************************************)
Entry(compute, workgroupSize, fragment, resolve) ==
    [compute |-> compute, workgroupSize |-> workgroupSize,
     fragment |-> fragment, resolve |-> resolve]
NoEntry == Entry(<<>>, <<>>, <<>>, <<>>)
Canvas(size) == <<[canvas |-> TRUE, size |-> size, view |-> ""]>>
View(name) == <<[canvas |-> FALSE, size |-> <<>>, view |-> name]>>

\* the entry decorators of the sources: none, @compute with and without
\* @workgroup_size, @fragment on a canvas or on a texture, with @resolve
HotEntries ==
    {NoEntry,
     Entry(<<<<Num(100, 1)>>>>, <<>>, <<>>, <<>>),
     Entry(<<<<Num(200, 1)>>>>, <<>>, <<>>, <<>>),
     Entry(<<<<Num(100, 1)>>>>, <<<<Num(32, 1)>>>>, <<>>, <<>>),
     Entry(<<<<Wc("resolution", <<>>)>>>>, <<<<Num(32, 1)>>>>, <<>>, <<>>),
     Entry(<<>>, <<>>, Canvas(<<>>), <<>>),
     Entry(<<>>, <<>>, Canvas(<<<<Wc("resolution", <<>>)>>>>), <<>>),
     Entry(<<>>, <<>>, View("colorTex"), <<>>),
     Entry(<<>>, <<>>, View("colorTex"), <<"resolved">>),
     Entry(<<>>, <<>>, View("a"), <<>>)}

T2d == [base |-> "texture_2d", param |-> "f32"]

TextureLine(name, group, binding, size, used) ==
    [kind |-> TEX, name |-> name, type |-> T2d, size |-> <<size>>,
     format |-> <<"rgba8unorm">>, group |-> group, binding |-> binding, used |-> used,
     bindingFirst |-> FALSE, spaceBeforeColon |-> FALSE]

BufferLine(name, group, binding, size) ==
    [kind |-> BUF, name |-> name, type |-> ArrayOf("f32"), access |-> "read_write",
     size |-> <<size>>, stride |-> <<>>, group |-> group, binding |-> binding,
     used |-> FALSE, bindingFirst |-> FALSE, spaceBeforeColon |-> FALSE]

UniformLine(name, group, binding, struct, values) ==
    [kind |-> UNI, name |-> name, type |-> TypeOf("Uniforms", ""), struct |-> struct,
     values |-> values, group |-> group, binding |-> binding, used |-> FALSE,
     bindingFirst |-> FALSE, spaceBeforeColon |-> FALSE]

OtherLine(kind, name, group, binding, variant) ==
    [kind |-> kind, name |-> name, group |-> group, binding |-> binding, variant |-> variant,
     used |-> FALSE, bindingFirst |-> FALSE, spaceBeforeColon |-> FALSE]

Field(name, type) == [name |-> name, type |-> type]
Nested(name, content) == [name |-> name, content |-> content]
List3(a, b, c) == <<a, COMMA, b, COMMA, c>>

HotDecls ==
    {TextureLine(name, <<>>, binding, size, FALSE) :
        name \in {"a", "b"}, binding \in {<<>>, <<1>>},
        size \in {<<Num(4, 1)>>, <<Num(8, 1)>>}}
    \cup {TextureLine("a", <<1>>, <<>>, <<Wc("resolution", <<>>)>>, used) : used \in BOOLEAN}
    \cup {BufferLine("a", <<>>, <<>>, size) : size \in {<<Num(16, 1)>>, <<Num(32, 1)>>}}
    \cup {UniformLine("a", <<>>, <<>>, <<<<Field("color", "vec3<f32>")>>>>,
                       <<Nested("color", values)>>) :
             values \in {List3(Num(1, 1), Num(2, 1), Num(3, 1)),
                         List3(Num(3, 1), Num(2, 1), Num(1, 1))}}
    \cup {OtherLine(kind, "a", <<>>, <<>>, variant) : kind \in {SAMP, REF}, variant \in {1, 2}}

HotWildcardValues == {<<R(1920), R(1080)>>, <<R(1024), R(768)>>}
HotWildcards(resolution) == <<WildCard("resolution", resolution)>>

EmptySource == [entry |-> NoEntry, decls |-> <<>>]
EmptyDiff == [shaderReset |-> FALSE, deletions |-> <<>>, additions |-> <<>>, reorders |-> <<>>]

\* the sources a shader is constructed from
HotSources ==
    {src \in {[entry |-> e, decls |-> ds] : e \in {NoEntry}, ds \in SeqsUpTo(HotDecls, MaxHotDecls)}
              \cup {[entry |-> e, decls |-> ds] :
                       e \in HotEntries, ds \in SeqsUpTo(HotDecls, MaxEntryDecls)} :
        \A resolution \in HotWildcardValues : parseShader(src, HotWildcards(resolution)).ok}

\* Map.prototype.delete and Map.prototype.set on the outputs of a shader
OutputsDelete(out, name) == {o \in out : o.name # name}
OutputsSet(out, name, object) ==
    OutputsDelete(out, name) \cup {[name |-> name, object |-> object]}

\* Shader.removeResources: the entry under the name of each resource goes
RECURSIVE removeResources(_, _)
removeResources(resources, out) ==
    IF resources = <<>> THEN out
    ELSE removeResources(Tail(resources), OutputsDelete(out, Head(resources).name))

\* Shader.createResources: a GPU object of the kind of each resource is set
\* under its name; a reference creates nothing
RECURSIVE createResources(_, _)
createResources(resources, out) ==
    IF resources = <<>> THEN out
    ELSE createResources(Tail(resources),
                         IF Head(resources).resourceType = REF THEN out
                         ELSE OutputsSet(out, Head(resources).name,
                                         Head(resources).resourceType))

\* the constructor sets the canvas texture of a fragment shader on a canvas
WithCanvas(shader, out) ==
    IF shader.type = "fragment" /\ shader.metadata[1].canvas
    THEN OutputsSet(out, "canvas", "canvas")
    ELSE out

\* new Shader(device, name, src, wildcards)
ConstructedAs(src, wildcards, shader) ==
    /\ hotSrc = src
    /\ hotWild = wildcards
    /\ oldParsed = shader
    /\ parsed = shader
    /\ diff = EmptyDiff
    /\ outputs = WithCanvas(shader, createResources(shader.resources, {}))
    /\ hotPc = "constructed"

Constructed(src, wildcards) == ConstructedAs(src, wildcards, parseShader(src, wildcards).v)

\* a shader of the empty source
EmptyParse ==
    [type |-> "resource", metadata |-> <<>>, resources |-> <<>>,
     code |-> [declarations |-> <<>>, workgroupSize |-> <<>>]]

\* the sizes of the browser window
Windows ==
    {[innerWidth |-> 800, innerHeight |-> 600], [innerWidth |-> 1024, innerHeight |-> 768]}
DefaultWindow == [innerWidth |-> 800, innerHeight |-> 600]

HotIdle == window = DefaultWindow /\ ConstructedAs(EmptySource, <<>>, EmptyParse)

\* Shader.reset once the source is src and the wildcards are wildcards; when
\* parseShader throws, reset throws before it assigns anything
ReloadAs(src, wildcards, shader) ==
    /\ hotPc = "constructed"
    /\ hotSrc' = src
    /\ hotWild' = wildcards
    /\ IF shader.ok
       THEN /\ oldParsed' = parsed
            /\ parsed' = shader.v
            /\ diff' = diffShaderMetadata(parsed, shader.v)
            /\ outputs' = createResources(diff'.additions,
                                         removeResources(diff'.deletions, outputs))
            /\ hotPc' = "reloaded"
       ELSE /\ UNCHANGED <<oldParsed, parsed, diff, outputs>>
            /\ hotPc' = "threw"
    /\ UNCHANGED window
    /\ UNCHANGED <<allocVars, evalVars, parseVars, composerVars>>

\* Shader.reset as a mutation would have it: the wildcard values of the
\* previous parse are used again
ReloadCached(src, wildcards) == ReloadAs(src, wildcards, parseShader(src, hotWild))

Reload(src, wildcards) == ReloadAs(src, wildcards, parseShader(src, wildcards))

ReloadUnchanged == Reload(hotSrc, hotWild)

\* the arguments of WildCard.set(...values): any number of them
SetValues ==
    HotWildcardValues \cup {<<>>, <<R(1), R(2), R(3), R(4), R(5)>>}

\* WildCard.set assigns the values and marks the shader for a reset
SetWildcard ==
    \E resolution \in SetValues :
        /\ HotWildcards(resolution) # hotWild
        /\ Reload(hotSrc, HotWildcards(resolution))

InsertDeclaration ==
    /\ Len(hotSrc.decls) < MaxHotDecls
    /\ \E d \in HotDecls, pos \in 0..Len(hotSrc.decls) :
          Reload([hotSrc EXCEPT !.decls =
                     SubSeq(@, 1, pos) \o <<d>> \o SubSeq(@, pos + 1, Len(@))], hotWild)

RemoveDeclaration ==
    \E i \in 1..Len(hotSrc.decls) :
        Reload([hotSrc EXCEPT !.decls = SubSeq(@, 1, i - 1) \o SubSeq(@, i + 1, Len(@))],
               hotWild)

ReplaceDeclaration ==
    \E i \in 1..Len(hotSrc.decls), d \in HotDecls :
        /\ (d.kind # hotSrc.decls[i].kind \/ d # hotSrc.decls[i])
        /\ Reload([hotSrc EXCEPT !.decls[i] = d], hotWild)

ReplaceEntry ==
    \E e \in HotEntries :
        /\ e # hotSrc.entry
        /\ Reload([hotSrc EXCEPT !.entry = e], hotWild)

\* the user resizes the browser window; the shader is not reset
ResizeWindow ==
    /\ \E w \in Windows : w # window /\ window' = w
    /\ UNCHANGED <<hotSrc, hotWild, oldParsed, parsed, diff, hotPc, outputs>>
    /\ UNCHANGED <<allocVars, evalVars, parseVars, composerVars>>

(***************************************************************************)
(* The composer and its shaders on the device.  A GPU object is            *)
(* [id, kind]: the device numbers the objects it creates, and destroy()    *)
(* puts the id in device.destroyed.  The outputs and the inputs of a       *)
(* shader are Maps, sets of [name, object].  A bind group layout is the    *)
(* list of the bindings of its entries, a bind group is                    *)
(* [entries, layout], and a pipeline is [code, layout].                    *)
(***************************************************************************)
ShaderNames == {"other", "main", "extra"}

\* Map.prototype.get: <<>> for undefined, else <<the value>>
MapGetValue(map, name) ==
    IF \E o \in map : o.name = name
    THEN <<(CHOOSE o \in map : o.name = name).object>>
    ELSE <<>>

\* device.createTexture, createBuffer and createSampler
NewObject(dev, kind) == [id |-> dev.created + 1, kind |-> kind]
AfterCreate(dev) == [dev EXCEPT !.created = @ + 1]

\* `if (resource.destroy) resource.destroy()`: a GPUSampler has no destroy
Destroy(dev, object) ==
    IF object.kind = "GPUSampler" THEN dev
    ELSE [dev EXCEPT !.destroyed = @ \cup {object.id}]

\* the body of the loop of Shader.removeResources, found being outputs.get(r.name)
RemoveFound(w, name, found) ==
    IF found = <<>> THEN w
    ELSE [node |-> [w.node EXCEPT !.outputs = OutputsDelete(@, name)],
          device |-> Destroy(w.device, found[1])]

\* Shader.removeResources on w = [node, device]
RECURSIVE removeResourcesOn(_, _)
removeResourcesOn(resources, w) ==
    IF resources = <<>> THEN w
    ELSE removeResourcesOn(Tail(resources),
                           RemoveFound(w, Head(resources).name,
                                       MapGetValue(w.node.outputs, Head(resources).name)))

\* createTextureResource, createBufferResource, createSamplerResource and
\* createUniformResource, which also pushes its UniformBuffer
CreateOutput(w, name, object, isUniform) ==
    [node |-> [w.node EXCEPT !.outputs = OutputsSet(@, name, object),
                             !.uniformBuffers = IF isUniform THEN Append(@, object) ELSE @],
     device |-> AfterCreate(w.device)]

\* the GPU object of a resource type
ObjectKind(resourceType) ==
    CASE resourceType = TEX -> "GPUTexture"
      [] resourceType = SAMP -> "GPUSampler"
      [] OTHER -> "GPUBuffer"

\* Shader.createResources on w = [node, device]: a reference creates nothing
RECURSIVE createResourcesOn(_, _)
createResourcesOn(resources, w) ==
    IF resources = <<>> THEN w
    ELSE createResourcesOn(
             Tail(resources),
             IF Head(resources).resourceType = REF THEN w
             ELSE CreateOutput(w, Head(resources).name,
                               NewObject(w.device, ObjectKind(Head(resources).resourceType)),
                               Head(resources).resourceType = UNI))

\* Shader.initLayout: an entry for every resource used in a body
initLayout(resources) ==
    LET used == SelectSeq(resources, LAMBDA r : r.usedInBody)
    IN  [i \in 1..Len(used) |-> used[i].binding]

\* the resource of a bind group entry: Ok(<<>>) when it stays undefined,
\* Throw when the input of a reference is not set
EntryResource(resource, node, others) ==
    IF resource.resourceType # REF THEN Ok(MapGetValue(node.outputs, resource.name))
    ELSE IF MapGetValue(node.inputs, resource.name) = <<>> THEN Throw
    ELSE Ok(MapGetValue(others[MapGetValue(node.inputs, resource.name)[1].shader].outputs,
                        MapGetValue(node.inputs, resource.name)[1].name))

\* `if (entry.resource) entries.push(entry)`
PushEntry(binding, resource, entries) ==
    IF ~resource.ok \/ ~entries.ok THEN Throw
    ELSE IF resource.v = <<>> THEN entries
    ELSE Ok(<<[binding |-> binding, resource |-> resource.v[1]]>> \o entries.v)

\* the loop of Shader.createBindGroup
RECURSIVE BindGroupEntries(_, _, _)
BindGroupEntries(resources, node, others) ==
    IF resources = <<>> THEN Ok(<<>>)
    ELSE IF ~Head(resources).usedInBody THEN BindGroupEntries(Tail(resources), node, others)
    ELSE PushEntry(Head(resources).binding, EntryResource(Head(resources), node, others),
                   BindGroupEntries(Tail(resources), node, others))

\* Shader.createInputs, entries being the entries createBindGroup collects:
\* an exception leaves the bind group as it was
WithBindGroup(node, entries) ==
    IF ~entries.ok THEN node
    ELSE [node EXCEPT !.bindGroup = <<[entries |-> entries.v, layout |-> node.layout]>>]

\* Shader.createInputs; others are the shaders by name, this one included
createInputs(node, others) ==
    WithBindGroup(node, BindGroupEntries(node.parsed.resources, node, others))

\* createComputePipeline and createFragmentPipeline: the module is compiled
\* from this.shader and laid out by this.layout
createPipeline(node) ==
    IF node.parsed.type \in {"compute", "fragment"}
    THEN [node EXCEPT !.pipeline = <<[code |-> node.shader, layout |-> node.layout]>>]
    ELSE node

\* the wildcards a shader is constructed with
ShaderWildcards(dependsOn, value) ==
    IF dependsOn THEN <<WildCard("resolution", value)>> ELSE <<>>

\* new Shader(device, name, src, wildcards) once the source is parsed
ShaderOfParse(name, src, dependsOn, shader, dev) ==
    createResourcesOn(shader.resources,
                      [node |-> createPipeline(
                                    [name |-> name, oldShader |-> src, dependsOn |-> dependsOn,
                                     parsed |-> shader, shader |-> shader.code,
                                     outputs |-> {}, inputs |-> {}, uniformBuffers |-> <<>>,
                                     layout |-> initLayout(shader.resources),
                                     bindGroup |-> <<>>, pipeline |-> <<>>,
                                     marked |-> FALSE]),
                       device |-> dev])

\* new Shader(device, name, src, wildcards): [node, device]
NewShader(name, src, dependsOn, value, dev) ==
    ShaderOfParse(name, src, dependsOn,
                  parseShader(src, ShaderWildcards(dependsOn, value)).v, dev)

\* Shader.reset after the resources are removed and created: the bind group,
\* then the pipeline when the diff asks for it
ResetInputs(w, others, shaderReset) ==
    IF ~BindGroupEntries(w.node.parsed.resources, w.node,
                         [others EXCEPT ![w.node.name] = w.node]).ok
    THEN w
    ELSE [w EXCEPT !.node =
             IF shaderReset
             THEN createPipeline(createInputs(@, [others EXCEPT ![w.node.name] = w.node]))
             ELSE createInputs(@, [others EXCEPT ![w.node.name] = w.node])]

\* Shader.reset once the source is parsed again and the diff is taken
ResetWith(node, dev, others, shader, difference) ==
    ResetInputs(createResourcesOn(difference.additions,
                                  removeResourcesOn(difference.deletions,
                                                    [node |-> [node EXCEPT !.parsed = shader],
                                                     device |-> dev])),
                others, difference.shaderReset)

\* Shader.reset once the source is parsed again: nothing changes when
\* parseShader throws
ResetParsed(node, dev, others, shader) ==
    IF ~shader.ok THEN [node |-> node, device |-> dev]
    ELSE ResetWith(node, dev, others, shader.v, diffShaderMetadata(node.parsed, shader.v))

\* Shader.reset: [node, device]
reset(node, dev, others, value) ==
    ResetParsed(node, dev, others,
                parseShader(node.oldShader, ShaderWildcards(node.dependsOn, value)))

\* Array.prototype.indexOf, from 0, -1 when absent
IndexOf(list, x) ==
    IF \E i \in 1..Len(list) : list[i] = x
    THEN SetMin({i \in 1..Len(list) : list[i] = x}) - 1
    ELSE -1

\* list.splice(start, 1): a negative start counts from the end of the list
SpliceOne(list, start) ==
    LET from == IF start < 0
                THEN (IF Len(list) + start < 0 THEN 0 ELSE Len(list) + start)
                ELSE (IF start > Len(list) THEN Len(list) ELSE start)
    IN  IF from >= Len(list) THEN list
        ELSE SubSeq(list, 1, from) \o SubSeq(list, from + 2, Len(list))

\* the loop of Composer.setInputs over the references of a pass: Ok(the
\* inputs) or Throw
RECURSIVE ReferenceInputs(_, _, _)
ReferenceInputs(references, list, others) ==
    IF references = <<>> THEN Ok({})
    ELSE IF IndexOf(list, Head(references).node) = -1 THEN Throw
    ELSE IF MapGetValue(others[Head(references).node].outputs, Head(references).ref) = <<>>
    THEN Throw
    ELSE IF ~ReferenceInputs(Tail(references), list, others).ok THEN Throw
    ELSE Ok(OutputsSet(ReferenceInputs(Tail(references), list, others).v,
                       Head(references).name,
                       [shader |-> Head(references).node, name |-> Head(references).ref]))

\* Shader.setInputs: the inputs are set one by one, then the bind group is created
RECURSIVE SetAll(_, _)
SetAll(map, inputs) ==
    IF inputs = {} THEN map
    ELSE LET input == CHOOSE i \in inputs : TRUE
         IN  SetAll(OutputsSet(map, input.name, input.object), inputs \ {input})

setInputs(node, inputs, others) ==
    createInputs([node EXCEPT !.inputs = SetAll(@, inputs)],
                 [others EXCEPT ![node.name] = [node EXCEPT !.inputs = SetAll(@, inputs)]])

\* Composer.setInputs from pass i of the list on: the shaders by name; an
\* exception leaves the later passes as they were
RECURSIVE ComposerSetInputs(_, _, _)
PassSetInputs(list, i, others, inputs) ==
    IF ~inputs.ok THEN others
    ELSE ComposerSetInputs(list, i + 1,
                           [others EXCEPT ![list[i]] = setInputs(@, inputs.v, others)])

ComposerSetInputs(list, i, others) ==
    IF i > Len(list) THEN others
    ELSE PassSetInputs(list, i, others,
                       ReferenceInputs(SelectSeq(others[list[i]].parsed.resources,
                                                 LAMBDA r : r.resourceType = REF),
                                       list, others))

ComposerIdle ==
    /\ shaders = <<>>
    /\ nodes = <<>>
    /\ device = [created |-> 0, destroyed |-> {}]
    /\ resolutionWildcard = [value |-> <<>>, shaders |-> <<>>]

AllocIdle ==
    /\ allocIn = <<>>
    /\ allocOut = <<>>
    /\ allocPc = "input"

EvalIdle ==
    /\ evalIn = <<>>
    /\ evalDims = 0
    /\ evalOut = Throw
    /\ evalPc = "input"

ParseIdle ==
    /\ parseIn = <<>>
    /\ parseOut = <<>>
    /\ parsePc = "input"

HotInit ==
    /\ window = DefaultWindow
    /\ \E src \in HotSources : Constructed(src, HotWildcards(<<R(1920), R(1080)>>))
    /\ AllocIdle
    /\ EvalIdle
    /\ ParseIdle
    /\ ComposerIdle

HotNext ==
    \/ ReloadUnchanged
    \/ SetWildcard
    \/ InsertDeclaration
    \/ RemoveDeclaration
    \/ ReplaceDeclaration
    \/ ReplaceEntry
    \/ ResizeWindow

SpecHot == HotInit /\ [][HotNext]_vars

(***************************************************************************)
(* SpecEval: one of the evaluator's functions is applied to an expression.  *)
(***************************************************************************)
EvalWildcards ==
    <<WildCard("resolution", <<R(1920), R(1080)>>),
      WildCard("scale", <<R(2)>>),
      WildCard("offset", <<R(-4)>>),
      WildCard("tint", <<R(5), R(6), R(7), R(9)>>)>>

\* the tokens of the expressions of up to MaxTokens tokens
EvalTokens ==
    {Num(0, 1), Num(3, 1), Num(8, 1),
     Op("+"), Op("-"), Op("*"), Op("/"), LP, RP, COMMA,
     Wc("resolution", <<>>), Wc("resolution", <<"y">>), Wc("scale", <<>>), Wc("missing", <<>>)}

EvalOperands ==
    {Num(2, 1), Num(1, 2), Wc("resolution", <<"y">>), Wc("offset", <<>>), Wc("tint", <<>>)}
EvalOperators == {Op("+"), Op("-"), Op("*"), Op("/")}
SwizzleLetters == {"x", "y", "z", "w", "r", "g", "b", "a"}

\* longer expressions: two operators with and without parentheses, swizzles of
\* a four-component wildcard, lists
EvalShapes ==
    {<<a, o, b, p, c>> : a \in EvalOperands, b \in EvalOperands, c \in EvalOperands,
                         o \in EvalOperators, p \in EvalOperators}
    \cup {<<LP, a, o, b, RP, p, Num(3, 1)>> :
             a \in EvalOperands, b \in EvalOperands, o \in EvalOperators, p \in EvalOperators}
    \cup {<<Num(3, 1), o, LP, a, p, b, RP>> :
             a \in EvalOperands, b \in EvalOperands, o \in EvalOperators, p \in EvalOperators}
    \cup {<<Wc(w, <<c>>)>> : w \in {"tint", "resolution", "scale"}, c \in SwizzleLetters}
    \cup {<<Wc(w, <<c, e>>), o, Num(3, 1)>> :
             w \in {"tint", "resolution"}, c \in {"x", "y"}, e \in {"x", "z", "a"},
             o \in EvalOperators}
    \cup {<<Wc("tint", <<c>>), o, Num(3, 1)>> : c \in SwizzleLetters, o \in EvalOperators}
    \cup {<<a, COMMA, b, COMMA, c>> : a \in EvalOperands, b \in EvalOperands, c \in EvalOperands}
    \cup {<<a, o, b, COMMA, c>> : a \in EvalOperands, b \in EvalOperands, c \in EvalOperands,
                                  o \in EvalOperators}

EvalInputs == SeqsUpTo(EvalTokens, MaxTokens) \cup EvalShapes

EvalInit ==
    /\ evalIn \in EvalInputs
    /\ evalDims = 0
    /\ evalOut = Throw
    /\ evalPc = "input"
    /\ AllocIdle
    /\ HotIdle
    /\ ParseIdle
    /\ ComposerIdle

Returned(pc, dims, out) ==
    /\ evalPc = "input"
    /\ evalPc' = pc
    /\ evalDims' = dims
    /\ evalOut' = out
    /\ UNCHANGED evalIn
    /\ UNCHANGED <<allocVars, hotVars, parseVars, composerVars>>

EvaluateMathExpression ==
    LET value == evaluateMathExpression(evalIn)
    IN  Returned("math", 0, IF value.ok THEN Ok(<<value.v>>) ELSE Throw)

EvaluateWildcardExpression ==
    Returned("wildcard", 0, evaluateWildcardExpression(evalIn, EvalWildcards))

EvaluateResolutionExpression ==
    \E expectedDimensions \in 1..MaxDims :
        Returned("resolution", expectedDimensions,
                 evaluateResolutionExpression(evalIn, expectedDimensions, EvalWildcards))

EvalNext ==
    \/ EvaluateMathExpression
    \/ EvaluateWildcardExpression
    \/ EvaluateResolutionExpression

SpecEval == EvalInit /\ [][EvalNext]_vars

(***************************************************************************)
(* SpecParse: a declaration line is parsed by the parser of its kind, or a  *)
(* source is parsed by parseShader.                                         *)
(***************************************************************************)
\* the lists of 1..n elements of S, written with commas between the elements
RECURSIVE Join(_)
Join(params) ==
    IF Len(params) = 1 THEN Head(params) ELSE Head(params) \o <<COMMA>> \o Join(Tail(params))

Lists(S, n) == {Join(params) : params \in SeqsUpTo(S, n) \ {<<>>}}

SizeParams ==
    {<<Num(4, 1)>>, <<Num(7, 1)>>, <<Num(0, 1)>>, <<Num(1, 2)>>,
     <<Wc("resolution", <<>>)>>, <<Wc("resolution", <<"x">>)>>,
     <<Num(2, 1), Op("*"), Num(3, 1)>>, <<Op("-"), Num(4, 1)>>,
     <<LP, Num(2, 1), Op("+"), Num(3, 1), RP, Op("*"), Num(2, 1)>>}

ParseTextureTypes ==
    {"texture_1d", "texture_2d", "texture_2d_array", "texture_3d", "texture_cube",
     "texture_cube_array", "texture_storage_2d", "texture_storage_2d_array",
     "texture_storage_cube", "texture_depth_2d"}

TextureLines ==
    {[kind |-> TEX, name |-> "tex", type |-> [base |-> base, param |-> "f32"],
      size |-> <<size>>, format |-> format, group |-> <<>>, binding |-> <<>>,
      used |-> FALSE, bindingFirst |-> FALSE, spaceBeforeColon |-> FALSE] :
        base \in ParseTextureTypes, size \in Lists(SizeParams, MaxSizeParams),
        format \in {<<"rgba8unorm">>}}
    \cup {[kind |-> TEX, name |-> "tex", type |-> T2d, size |-> size, format |-> format,
           group |-> <<>>, binding |-> <<>>, used |-> FALSE, bindingFirst |-> FALSE,
           spaceBeforeColon |-> FALSE] :
             size \in {<<>>, <<<<Num(4, 1)>>>>, <<<<LP, Num(4, 1)>>>>}, format \in {<<>>, <<"r32float">>}}

BufferLines ==
    {[kind |-> BUF, name |-> "data", type |-> type, access |-> "read_write",
      size |-> size, stride |-> stride, group |-> <<>>, binding |-> <<>>,
      used |-> FALSE, bindingFirst |-> FALSE, spaceBeforeColon |-> FALSE] :
        type \in ArrayTypes \cup {TypeOf("f32", "")},
        size \in {<<>>} \cup {<<p>> : p \in Lists(SizeParams \cup {<<Num(100, 1)>>, <<Num(32, 1)>>},
                                                  MaxBufferSizeParams)},
        stride \in {<<>>, <<4>>}}

FieldTypes == {"f32", "vec2<f32>", "vec3<f32>", "vec4<f32>", "i32"}

ColorValues ==
    Lists({<<Num(1, 20)>>, <<Num(7, 10)>>}, MaxComponents)
    \cup {List3(Num(1, 20), Num(7, 10), Num(2, 5)),
          <<Wc("resolution", <<>>)>>,
          <<Wc("resolution", <<>>), COMMA, Num(1, 1)>>,
          <<Num(1, 1), Op("/"), Num(0, 1)>>,
          <<RP>>}

UniformLines ==
    {UniformLine("uniforms", <<>>, <<>>, struct, <<>>) :
        struct \in {<<>>, <<<<>>>>, <<<<Field("color", "vec3<f32>")>>>>}}
    \cup {UniformLine("uniforms", <<>>, <<>>, <<<<Field("color", type)>>>>,
                      <<Nested("color", values)>>) :
             type \in FieldTypes, values \in ColorValues}
    \cup {UniformLine("uniforms", <<>>, <<>>,
                      <<<<Field("color", type), Field("speed", speedType)>>>>,
                      <<Nested("color", values)>> \o speed) :
             type \in FieldTypes, values \in ColorValues, speedType \in {"f32", "vec2<f32>"},
             speed \in {<<>>, <<Nested("speed", <<Num(1, 1)>>)>>,
                        <<Nested("speed", <<Num(1, 1), COMMA, Num(2, 1)>>)>>}}

ComputeComponents ==
    {<<Num(8, 1)>>, <<Num(100, 1)>>, <<Wc("resolution", <<"x">>)>>, <<Wc("scale", <<>>)>>,
     <<Wc("resolution", <<>>)>>, <<Num(2, 1), Op("*"), Num(4, 1)>>}

ParseEntries ==
    {Entry(<<compute>>, workgroupSize, <<>>, <<>>) :
        compute \in Lists(ComputeComponents, MaxComponents),
        workgroupSize \in {<<>>, <<<<Num(32, 1)>>>>, <<<<Wc("resolution", <<>>)>>>>}}
    \cup {Entry(compute, <<>>, fragment, resolve) :
             compute \in {<<>>, <<<<Num(8, 1)>>>>, <<<<RP>>>>},
             fragment \in {<<>>, Canvas(<<>>), Canvas(<<<<Wc("resolution", <<>>)>>>>),
                           Canvas(<<<<Num(800, 1), COMMA, Num(600, 1)>>>>),
                           Canvas(<<<<Wc("tint", <<>>)>>>>), View("colorTex")},
             resolve \in {<<>>, <<"resolved">>}}

ParseDecls ==
    {<<>>, <<BufferLine("data", <<>>, <<>>, <<Num(100, 1)>>)>>,
     <<TextureLine("colorTex", <<>>, <<>>, <<Num(4, 1)>>, FALSE)>>,
     <<TextureLine("colorTex", <<>>, <<>>, <<Num(4, 1)>>, TRUE)>>}

ParseSources ==
    {[kind |-> "source", entry |-> entry, decls |-> decls] :
        entry \in ParseEntries, decls \in ParseDecls}

\* declarations that parse and declarations that do not: a texture without
\* @format, a texture of size 0 with an explicit binding, a buffer of a
\* fractional size, a uniform without the default of its field
MixedLines ==
    {TextureLine("colorTex", <<>>, <<>>, <<Num(4, 1)>>, FALSE),
     [TextureLine("colorTex", <<>>, <<>>, <<Num(4, 1)>>, TRUE) EXCEPT !.format = <<>>],
     TextureLine("depthTex", <<>>, <<0>>, <<Num(0, 1)>>, FALSE),
     BufferLine("data", <<>>, <<>>, <<Num(100, 1)>>),
     BufferLine("data", <<>>, <<>>, <<Num(1, 2)>>),
     UniformLine("uniforms", <<>>, <<>>, <<<<Field("color", "f32")>>>>,
                 <<Nested("color", <<Num(1, 1)>>)>>),
     UniformLine("uniforms", <<>>, <<>>, <<<<Field("color", "f32")>>>>, <<>>)}

MixedEntries ==
    {NoEntry, Entry(<<<<Num(8, 1)>>>>, <<>>, <<>>, <<>>),
     Entry(<<>>, <<>>, View("colorTex"), <<>>),
     Entry(<<<<Num(8, 1), COMMA, Num(8, 1)>>>>, <<>>, <<>>, <<>>)}

MixedSources ==
    {[kind |-> "source", entry |-> entry, decls |-> decls] :
        entry \in MixedEntries, decls \in SeqsUpTo(MixedLines, MaxMixedDecls)}

\* a declaration of each kind with @group(1) and @binding(2), in both orders,
\* with and without whitespace before the colon, its identifier used in a
\* function body or not
OrderLines ==
    {[line EXCEPT !.bindingFirst = bindingFirst, !.spaceBeforeColon = spaceBeforeColon,
                  !.used = used] :
        line \in {TextureLine("colorTex", <<1>>, <<2>>, <<Num(4, 1)>>, FALSE),
                  BufferLine("data", <<1>>, <<2>>, <<Num(100, 1)>>),
                  UniformLine("uniforms", <<1>>, <<2>>, <<<<Field("color", "f32")>>>>,
                              <<Nested("color", <<Num(1, 1)>>)>>),
                  OtherLine(SAMP, "linearSampler", <<1>>, <<2>>, 1),
                  OtherLine(REF, "other", <<1>>, <<2>>, 1)},
        bindingFirst \in BOOLEAN, spaceBeforeColon \in BOOLEAN, used \in BOOLEAN}

OrderSources ==
    {[kind |-> "source", entry |-> NoEntry, decls |-> <<line>>] : line \in OrderLines}

ParseWildcards == EvalWildcards

ParseInit ==
    /\ parseIn \in TextureLines \cup BufferLines \cup UniformLines
                   \cup ParseSources \cup MixedSources \cup OrderSources
    /\ parseOut = <<>>
    /\ parsePc = "input"
    /\ AllocIdle
    /\ HotIdle
    /\ EvalIdle
    /\ ComposerIdle

ParserReturned(out) ==
    /\ parsePc = "input"
    /\ parsePc' = "done"
    /\ parseOut' = out
    /\ UNCHANGED parseIn
    /\ UNCHANGED <<allocVars, hotVars, evalVars, composerVars>>

ParseTextureDeclaration ==
    /\ parseIn.kind = TEX
    /\ ParserReturned(parseTextureDeclaration(parseIn, 0, ParseWildcards))

ParseBufferDeclaration ==
    /\ parseIn.kind = BUF
    /\ ParserReturned(parseBufferDeclaration(parseIn, 0, ParseWildcards))

ParseUniformDeclaration ==
    /\ parseIn.kind = UNI
    /\ ParserReturned(parseUniformDeclaration(parseIn, 0, ParseWildcards))

ParseShader ==
    /\ parseIn.kind = "source"
    /\ ParserReturned(parseShader(parseIn, ParseWildcards))

ParseNext ==
    \/ ParseTextureDeclaration
    \/ ParseBufferDeclaration
    \/ ParseUniformDeclaration
    \/ ParseShader

SpecParse == ParseInit /\ [][ParseNext]_vars

(***************************************************************************)
(* SpecAlloc: a source with up to MaxDecls declarations is parsed.         *)
(***************************************************************************)
AllocNames == {"a"}
AllocGroupDecs == {<<>>, <<1>>}
BindingDecs == {<<>>} \cup {<<b>> : b \in 0..MaxBinding}

AllocDecls ==
    {TextureLine(name, group, binding, <<Num(4, 1)>>, FALSE) :
        name \in AllocNames, group \in AllocGroupDecs, binding \in BindingDecs}
    \cup {BufferLine(name, group, binding, <<Num(16, 1)>>) :
             name \in AllocNames, group \in AllocGroupDecs, binding \in BindingDecs}

AllocInit ==
    /\ allocIn \in SeqsUpTo(AllocDecls, MaxDecls)
    /\ allocOut = <<>>
    /\ allocPc = "input"
    /\ HotIdle
    /\ EvalIdle
    /\ ParseIdle
    /\ ComposerIdle

ParseResources ==
    /\ allocPc = "input"
    /\ allocOut' = parseResources(allocIn, <<>>)
    /\ allocPc' = "done"
    /\ UNCHANGED allocIn
    /\ UNCHANGED <<hotVars, evalVars, parseVars, composerVars>>

AllocNext == ParseResources

SpecAlloc == AllocInit /\ [][AllocNext]_vars

(***************************************************************************)
(* SpecComposer: three shaders are constructed on one device, the compute  *)
(* shader "other" with a texture and a uniform that follow the wildcard,   *)
(* the compute shader "main" with a reference to the texture of "other",   *)
(* and "extra" without resources.                                          *)
(* They are added to and removed from a composer, the composer sets        *)
(* their inputs, the wildcard is set, and the shaders it marks reset.      *)
(***************************************************************************)
ComposerSource(name) ==
    CASE name = "other" ->
             [entry |-> Entry(<<<<Num(8, 1)>>>>, <<>>, <<>>, <<>>),
              decls |-> <<TextureLine("colorTex", <<>>, <<>>, <<Wc("resolution", <<>>)>>, TRUE),
                          UniformLine("uniforms", <<>>, <<>>,
                                      <<<<Field("color", "vec2<f32>")>>>>,
                                      <<Nested("color", <<Wc("resolution", <<>>)>>)>>)>>]
      [] name = "main" ->
             [entry |-> Entry(<<<<Num(8, 1)>>>>, <<>>, <<>>, <<>>),
              decls |-> <<OtherLine(REF, "input", <<>>, <<>>, 1)>>]
      [] OTHER -> EmptySource

\* the values the wildcard is set to: a width of 0 leaves no valid size
ComposerValues == {<<R(1920), R(1080)>>, <<R(1024), R(768)>>, <<R(0), R(600)>>}
InitialValue == <<R(1920), R(1080)>>

\* the shaders constructed with the wildcard in their list
DependsOn(name, mainDepends) == name = "other" \/ (name = "main" /\ mainDepends)

\* the shaders are constructed one after the other on the device
RECURSIVE ConstructAll(_, _, _, _)
ConstructNext(order, mainDepends, built, w) ==
    ConstructAll(Tail(order), mainDepends, built @@ (Head(order) :> w.node), w.device)

ConstructAll(order, mainDepends, built, dev) ==
    IF order = <<>> THEN [nodes |-> built, device |-> dev]
    ELSE ConstructNext(order, mainDepends, built,
                       NewShader(Head(order), ComposerSource(Head(order)),
                                 DependsOn(Head(order), mainDepends), InitialValue, dev))

\* dependOnWildCards: each shader pushes itself when it is constructed
Dependencies(order, mainDepends) == SelectSeq(order, LAMBDA n : DependsOn(n, mainDepends))

ConstructedIn(order, mainDepends, w) ==
    /\ nodes = w.nodes
    /\ device = w.device
    /\ resolutionWildcard = [value |-> InitialValue,
                             shaders |-> Dependencies(order, mainDepends)]

ComposerInit ==
    /\ shaders = <<>>
    /\ \E order \in {<<"other", "main", "extra">>, <<"main", "other", "extra">>},
          mainDepends \in BOOLEAN :
           ConstructedIn(order, mainDepends,
                         ConstructAll(order, mainDepends, [n \in {} |-> <<>>],
                                      [created |-> 0, destroyed |-> {}]))
    /\ AllocIdle
    /\ HotIdle
    /\ EvalIdle
    /\ ParseIdle

\* Composer.addShader
AddShader(s) ==
    /\ s \notin Range(shaders)
    /\ shaders' = Append(shaders, s)
    /\ UNCHANGED <<nodes, device, resolutionWildcard>>
    /\ UNCHANGED <<allocVars, hotVars, evalVars, parseVars>>

\* Composer.removeShader, and Composer.removePass alike
RemoveShader(s) ==
    /\ shaders' = SpliceOne(shaders, IndexOf(shaders, s))
    /\ UNCHANGED <<nodes, device, resolutionWildcard>>
    /\ UNCHANGED <<allocVars, hotVars, evalVars, parseVars>>

\* Composer.setInputs
SetInputs ==
    /\ nodes' = ComposerSetInputs(shaders, 1, nodes)
    /\ UNCHANGED <<shaders, device, resolutionWildcard>>
    /\ UNCHANGED <<allocVars, hotVars, evalVars, parseVars>>

\* Shader.markReset: the shader is marked and resets before its next update
markReset(node) == [node EXCEPT !.marked = TRUE]

\* WildCard.set
Set(values) ==
    /\ device.created < MaxObjects
    /\ resolutionWildcard' = [resolutionWildcard EXCEPT !.value = values]
    /\ nodes' = [n \in DOMAIN nodes |->
                    IF n \in Range(resolutionWildcard.shaders)
                    THEN markReset(nodes[n]) ELSE nodes[n]]
    /\ UNCHANGED <<shaders, device>>
    /\ UNCHANGED <<allocVars, hotVars, evalVars, parseVars>>

\* a marked shader resets, w being what Shader.reset leaves
ResetTo(s, w) ==
    /\ nodes' = [nodes EXCEPT ![s] = [w.node EXCEPT !.marked = FALSE]]
    /\ device' = w.device
    /\ UNCHANGED <<shaders, resolutionWildcard>>
    /\ UNCHANGED <<allocVars, hotVars, evalVars, parseVars>>

Reset(s) ==
    /\ nodes[s].marked
    /\ ResetTo(s, reset(nodes[s], device, nodes, resolutionWildcard.value))

ComposerNext ==
    \/ \E s \in ShaderNames : AddShader(s)
    \/ \E s \in ShaderNames : RemoveShader(s)
    \/ SetInputs
    \/ \E values \in ComposerValues : Set(values)
    \/ \E s \in ShaderNames : Reset(s)

SpecComposer == ComposerInit /\ [][ComposerNext]_vars

(***************************************************************************)
(* Claims about the binding allocator (SpecAlloc).                         *)
(***************************************************************************)
\* the allocator's input: the list parseResources hands to computeBindingIndices
AllocCat == ConcatKinds(allocIn, <<>>)

SameDeclaration(a, b) ==
    a.resourceType = b.resourceType /\ a.declarationIndex = b.declarationIndex

\* the returned resource of an input resource, and the reverse
AllocOutOf(r) == allocOut[CHOOSE k \in 1..Len(allocOut) : SameDeclaration(allocOut[k], r)]
AllocInOf(r) == AllocCat[CHOOSE k \in 1..Len(AllocCat) : SameDeclaration(AllocCat[k], r)]

\* the smallest non-negative integer outside S
FirstFree(S) == SetMin({n \in 0..Cardinality(S) : n \notin S})

\* what is claimed in the group of input resource i when its turn comes: every
\* explicit binding of the group, and the bindings given to earlier auto resources
ClaimedFor(i) ==
    {AllocCat[j].binding : j \in {k \in 1..Len(AllocCat) :
          AllocCat[k].group = AllocCat[i].group /\ AllocCat[k].binding # -1}}
    \cup {AllocOutOf(AllocCat[j]).binding : j \in {k \in 1..(i - 1) :
          AllocCat[k].group = AllocCat[i].group /\ AllocCat[k].binding = -1}}

\* C1: within each group, every resource that needs auto-assignment receives,
\* in the order of the allocator's input list, the smallest non-negative
\* integer not claimed in the group by an explicit binding or by an earlier
\* auto-assignment (first fit, never max + 1).
C1_FirstFit ==
    allocPc = "done" =>
        /\ Len(allocOut) = Len(AllocCat)
        /\ \A i \in 1..Len(AllocCat) :
               AllocCat[i].binding = -1 =>
                   AllocOutOf(AllocCat[i]).binding = FirstFree(ClaimedFor(i))

\* C1 witness: group-0 resources [explicit 2, auto, auto] got bindings 0 and 1
C1_Witness ==
    /\ allocPc = "done"
    /\ Len(AllocCat) = 3
    /\ \A i \in 1..3 : AllocCat[i].group = 0
    /\ <<AllocCat[1].binding, AllocCat[2].binding, AllocCat[3].binding>> = <<2, -1, -1>>
    /\ AllocOutOf(AllocCat[2]).binding = 0
    /\ AllocOutOf(AllocCat[3]).binding = 1

\* C2 as stated: no two resources of the returned list that share a group
\* have the same binding.
C2_UniqueBindings ==
    allocPc = "done" =>
        \A i, j \in 1..Len(allocOut) :
            (i # j /\ allocOut[i].group = allocOut[j].group)
                => allocOut[i].binding # allocOut[j].binding

\* C2 amended: two resources of the returned list share a group and a binding
\* only when both declared that binding explicitly; an auto-assigned binding
\* is never shared.
C2_UniqueUnlessExplicit ==
    allocPc = "done" =>
        \A i, j \in 1..Len(allocOut) :
            (i # j /\ allocOut[i].group = allocOut[j].group
                   /\ allocOut[i].binding = allocOut[j].binding)
                => /\ AllocInOf(allocOut[i]).binding # -1
                   /\ AllocInOf(allocOut[j]).binding # -1

\* C2 witness: an explicit binding is claimed twice in a group that also holds
\* an auto-assigned resource
C2_Witness ==
    /\ allocPc = "done"
    /\ \E i, j, k \in 1..Len(allocOut) :
          /\ i # j
          /\ allocOut[i].group = allocOut[j].group
          /\ allocOut[i].binding = allocOut[j].binding
          /\ allocOut[k].group = allocOut[i].group
          /\ AllocInOf(allocOut[k]).binding = -1

(***************************************************************************)
(* Claims about the diff engine (SpecHot).                                 *)
(***************************************************************************)
\* the resources of a list under an identity, in list order
WithKey(resources, key) == SelectSeq(resources, LAMBDA r : getResourceKey(r) = key)

\* the same resource object, field by field
SameResource(a, b) == a.resourceType = b.resourceType /\ a = b

\* two parses with the same kind, metadata and resources
SameParse(a, b) ==
    /\ a.type = b.type
    /\ a.metadata = b.metadata
    /\ Len(a.resources) = Len(b.resources)
    /\ \A i \in 1..Len(a.resources) : SameResource(a.resources[i], b.resources[i])

Occurrences(resources, r) ==
    Cardinality({i \in 1..Len(resources) : SameResource(resources[i], r)})

KeysOf(resources) == {getResourceKey(resources[i]) : i \in 1..Len(resources)}

\* C3: diffShaderMetadata(X, X) has empty deletions, additions and reorders
\* and shaderReset = FALSE, for every X parseShader returns, also when X holds
\* several declarations with one (name, group, resourceType).
C3_DiffSelfEmpty ==
    (hotPc = "reloaded" /\ SameParse(oldParsed, parsed)) => diff = EmptyDiff

\* C4: a resource that keeps its identity between the two parses and differs
\* only in binding is listed in reorders, and neither it nor its earlier
\* version is listed in deletions or additions.
C4_BindingOnlyIsReorder ==
    hotPc = "reloaded" =>
        \A i \in 1..Len(oldParsed.resources), j \in 1..Len(parsed.resources) :
            LET b == oldParsed.resources[i]
                a == parsed.resources[j]
            IN  (/\ getResourceKey(b) = getResourceKey(a)
                 /\ b.binding # a.binding
                 /\ [b EXCEPT !.binding = a.binding] = a)
                => /\ Occurrences(diff.reorders, a) >= 1
                   /\ Occurrences(diff.additions, a) = 0
                   /\ Occurrences(diff.deletions, b) = 0

\* C5: shaderReset is true exactly when the shader kind changed or the
\* kind-specific metadata differs; a change of the resources alone never
\* sets it.
C5_ShaderResetIff ==
    hotPc = "reloaded" =>
        (diff.shaderReset <=>
            (oldParsed.type # parsed.type \/ oldParsed.metadata # parsed.metadata))

\* C5 witness: a compute shader whose thread count alone changed was reloaded
\* and asks for a full rebuild
C5_Witness ==
    /\ hotPc = "reloaded"
    /\ oldParsed.type = "compute" /\ parsed.type = "compute"
    /\ oldParsed.metadata[1].threadCount # parsed.metadata[1].threadCount
    /\ oldParsed.metadata[1].workgroupSize = parsed.metadata[1].workgroupSize
    /\ oldParsed.metadata[1].type = parsed.metadata[1].type
    /\ Len(oldParsed.resources) = Len(parsed.resources)
    /\ \A i \in 1..Len(parsed.resources) :
          SameResource(oldParsed.resources[i], parsed.resources[i])
    /\ diff.shaderReset

\* C6: every resource identity falls into exactly one outcome.  Present only
\* in before: in deletions only.  Present only in after: in additions only.
\* Present in both with a difference other than binding: the before resource
\* once in deletions, the after resource once in additions, nothing in
\* reorders.  Present in both and fully equal: in none of the three lists.
\* (Where an identity is declared more than once, only the fully-equal case
\* is constrained.)
C6_OneOutcomePerIdentity ==
    hotPc = "reloaded" =>
        \A key \in KeysOf(oldParsed.resources) \cup KeysOf(parsed.resources) :
            LET bs == WithKey(oldParsed.resources, key)
                as == WithKey(parsed.resources, key)
                dels == WithKey(diff.deletions, key)
                adds == WithKey(diff.additions, key)
                reos == WithKey(diff.reorders, key)
            IN  /\ (as = <<>>) => (dels = bs /\ adds = <<>> /\ reos = <<>>)
                /\ (bs = <<>>) => (adds = as /\ dels = <<>> /\ reos = <<>>)
                /\ (bs = as) => (dels = <<>> /\ adds = <<>> /\ reos = <<>>)
                /\ (Len(bs) = 1 /\ Len(as) = 1
                        /\ [bs[1] EXCEPT !.binding = as[1].binding] # as[1])
                    => (dels = bs /\ adds = as /\ reos = <<>>)

(***************************************************************************)
(* Claims about the expression evaluator.                                  *)
(***************************************************************************)
\* the component a swizzle letter selects from a wildcard of EvalWildcards,
\* <<>> when the wildcard has no such component
Selected(name, letter) ==
    LET position == CASE letter \in {"x", "r"} -> 1
                      [] letter \in {"y", "g"} -> 2
                      [] letter \in {"z", "b"} -> 3
                      [] letter \in {"w", "a"} -> 4
        value == (CHOOSE w \in Range(EvalWildcards) : w.name = name).value
    IN  IF position <= Len(value) THEN <<value[position]>> ELSE <<>>

\* a reference to a known wildcard with a one-letter swizzle that selects an
\* existing component
IsSingleSwizzle(tok) ==
    /\ tok.t = "wc"
    /\ \E w \in Range(EvalWildcards) : w.name = tok.name
    /\ Len(tok.sw) = 1
    /\ Selected(tok.name, tok.sw[1]) # <<>>

ValueOf(tok) ==
    IF tok.t = "num" THEN FromRat(Rat(tok.n, tok.d))
    ELSE FromRat(Selected(tok.name, tok.sw[1])[1])

IsOperand(tok) == tok.t = "num" \/ IsSingleSwizzle(tok)

\* what a one-element evaluation returns for the number v
OneElement(v) == IF v.k = "fin" THEN Ok(<<ToRat(v)>>) ELSE Throw

\* a o b p c with * and / binding tighter than + and -, left to right otherwise
WithPrecedence(a, o, b, p, c) ==
    IF o \in {"+", "-"} /\ p \in {"*", "/"}
    THEN ApplyOp(o, a, ApplyOp(p, b, c))
    ELSE ApplyOp(p, ApplyOp(o, a, b), c)

\* C9: evaluateWildcardExpression replaces a wildcard reference that has a
\* one-letter swizzle by the component the letter selects (x/r the first, y/g
\* the second, z/b the third, w/a the fourth) and evaluates the arithmetic with
\* the standard precedence into a list of one number (an error when that
\* number is not finite); with resolution = [1920, 1080] the expression
\* info.resolution.y * 3 gives [3240].
C9_SingleSwizzle ==
    evalPc = "wildcard" =>
        /\ evalIn = <<Wc("resolution", <<"y">>), Op("*"), Num(3, 1)>>
              => evalOut = Ok(<<R(3240)>>)
        /\ (Len(evalIn) = 1 /\ IsSingleSwizzle(evalIn[1]))
              => evalOut = Ok(Selected(evalIn[1].name, evalIn[1].sw[1]))
        /\ (/\ Len(evalIn) = 3
            /\ IsOperand(evalIn[1]) /\ IsOp(evalIn[2]) /\ IsOperand(evalIn[3])
            /\ IsSingleSwizzle(evalIn[1]) \/ IsSingleSwizzle(evalIn[3]))
              => evalOut = OneElement(ApplyOp(evalIn[2].t, ValueOf(evalIn[1]), ValueOf(evalIn[3])))
        /\ (/\ Len(evalIn) = 5
            /\ IsOperand(evalIn[1]) /\ IsOp(evalIn[2]) /\ IsOperand(evalIn[3])
            /\ IsOp(evalIn[4]) /\ IsOperand(evalIn[5])
            /\ IsSingleSwizzle(evalIn[1]) \/ IsSingleSwizzle(evalIn[3]) \/ IsSingleSwizzle(evalIn[5]))
              => evalOut = OneElement(WithPrecedence(ValueOf(evalIn[1]), evalIn[2].t,
                                                    ValueOf(evalIn[3]), evalIn[4].t,
                                                    ValueOf(evalIn[5])))

\* info.resolution.y * 3 was evaluated to [3240]
C9_Witness ==
    /\ evalPc = "wildcard"
    /\ evalIn = <<Wc("resolution", <<"y">>), Op("*"), Num(3, 1)>>
    /\ evalOut = Ok(<<R(3240)>>)

\* a list of two or more operands separated by commas
IsOperandList(expression) ==
    /\ Len(expression) >= 3
    /\ Len(expression) % 2 = 1
    /\ \A i \in 1..Len(expression) :
          IF i % 2 = 1 THEN IsOperand(expression[i]) ELSE expression[i].t = COMMA.t

\* the values of the segments of such a list, in order
SegmentValues(expression) ==
    [k \in 1..((Len(expression) + 1) \div 2) |-> ToRat(ValueOf(expression[2 * k - 1]))]

\* C18: evaluateWildcardExpression evaluates a comma-separated list segment
\* by segment and returns one component per segment, in order, whether the
\* list has a wildcard or not; 8, 8 gives [8, 8].
C18_ListBySegment ==
    evalPc = "wildcard" =>
        /\ evalIn = <<Num(8, 1), COMMA, Num(8, 1)>> => evalOut = Ok(<<R(8), R(8)>>)
        /\ IsOperandList(evalIn) => evalOut = Ok(SegmentValues(evalIn))

\* a reference to a known wildcard whose swizzle letters, if any, all select
\* existing components
IsKnownReference(tok) ==
    /\ tok.t = "wc"
    /\ \E w \in Range(EvalWildcards) : w.name = tok.name
    /\ \A k \in 1..Len(tok.sw) : Selected(tok.name, tok.sw[k]) # <<>>

\* the components a number or a reference stands for
Components(tok) ==
    IF tok.t = "num" THEN <<Rat(tok.n, tok.d)>>
    ELSE IF tok.sw = <<>>
    THEN (CHOOSE w \in Range(EvalWildcards) : w.name = tok.name).value
    ELSE [k \in 1..Len(tok.sw) |-> Selected(tok.name, tok.sw[k])[1]]

IsTerm(tok) == tok.t = "num" \/ IsKnownReference(tok)

\* a o b where one of a and b is a reference of several components and the
\* other a number or a reference of one component
IsBroadcast(expression) ==
    /\ Len(expression) = 3
    /\ IsTerm(expression[1]) /\ IsOp(expression[2]) /\ IsTerm(expression[3])
    /\ expression[2].t # COMMA.t
    /\ \/ Len(Components(expression[1])) > 1 /\ Len(Components(expression[3])) = 1
       \/ Len(Components(expression[1])) = 1 /\ Len(Components(expression[3])) > 1

\* a o b with the i-th component of the reference of several components
ComponentResult(expression, i) ==
    LET a == Components(expression[1])
        b == Components(expression[3])
    IN  ApplyOp(expression[2].t,
                FromRat(IF Len(a) > 1 THEN a[i] ELSE a[1]),
                FromRat(IF Len(b) > 1 THEN b[i] ELSE b[1]))

BroadcastSize(expression) ==
    IF Len(Components(expression[1])) > 1
    THEN Len(Components(expression[1])) ELSE Len(Components(expression[3]))

\* C19: an expression a o b in which a wildcard reference yields n > 1
\* components evaluates to n components, the i-th being a o b with the i-th
\* component in the place of the reference (an error when one of them is not
\* finite), also when the other operand is a wildcard reference.
C19_Broadcast ==
    (evalPc = "wildcard" /\ IsBroadcast(evalIn)) =>
        IF \A i \in 1..BroadcastSize(evalIn) : ComponentResult(evalIn, i).k = "fin"
        THEN evalOut = Ok([i \in 1..BroadcastSize(evalIn) |->
                              ToRat(ComponentResult(evalIn, i))])
        ELSE ~evalOut.ok

(***************************************************************************)
(* Claims about the parsers (SpecParse).                                   *)
(***************************************************************************)
ArrayTextureTypes ==
    {"texture_2d_array", "texture_cube_array", "texture_storage_2d_array",
     "texture_depth_2d_array", "texture_depth_cube_array"}

\* the number of size values a texture type requires
Dimensionality(base) ==
    IF base \in {"texture_1d", "texture_storage_1d"} THEN 1
    ELSE IF base \in {"texture_3d", "texture_storage_3d"} \cup ArrayTextureTypes THEN 3
    ELSE 2

\* a texture line that has its decorators and a declarable type, and whose
\* size values all evaluate
IsResolvableTexture(line) ==
    /\ line.kind = TEX
    /\ line.size # <<>> /\ line.format # <<>>
    /\ CountOf(line.size[1], "(") = 0 /\ CountOf(line.size[1], ")") = 0
    /\ line.type.base \in VALID_TEXTURE_TYPES \cap TextureVariableTypes
    /\ ResolveParams(Split(line.size[1]), ParseWildcards).ok

GivenSizes(line) == ResolveParams(Split(line.size[1]), ParseWildcards).v

\* s followed by its last element up to length n
Padded(s, n) == [i \in 1..n |-> IF i <= Len(s) THEN s[i] ELSE s[Len(s)]]

\* C7: when a texture declaration gives fewer size values than its type
\* requires, a non-array type gets the values followed by repetitions of the
\* last one (a 2D texture with the single value v gets [v, v]; no resource when
\* a value is not positive), and an array type yields no Texture resource.
C7_TexturePadding ==
    (parsePc = "done" /\ IsResolvableTexture(parseIn)
        /\ Len(GivenSizes(parseIn)) < Dimensionality(parseIn.type.base))
    => IF parseIn.type.base \in ArrayTextureTypes THEN parseOut = <<>>
       ELSE IF \A i \in 1..Len(GivenSizes(parseIn)) : GivenSizes(parseIn)[i].n > 0
            THEN /\ parseOut # <<>>
                 /\ parseOut[1].size
                      = Padded(GivenSizes(parseIn), Dimensionality(parseIn.type.base))
            ELSE parseOut = <<>>

\* a 3D texture with the sizes 4, 7 was parsed and got [4, 7, 7]
C7_Witness ==
    /\ parsePc = "done"
    /\ parseIn.kind = TEX
    /\ parseIn.type.base = "texture_3d"
    /\ parseIn.size = <<<<Num(4, 1), COMMA, Num(7, 1)>>>>
    /\ parseOut # <<>>
    /\ parseOut[1].size = <<R(4), R(7), R(7)>>

\* C20: every dimension of the size of a Texture resource the parser
\* produces is a positive integer; a declaration with a dimension that is
\* not positive or not an integer produces no resource.
C20_PositiveIntegerSizes ==
    (parsePc = "done" /\ parseIn.kind = TEX /\ parseOut # <<>>)
    => \A i \in 1..Len(parseOut[1].size) :
           parseOut[1].size[i].d = 1 /\ parseOut[1].size[i].n > 0

\* the values the @size of a buffer line holds, and what they resolve to
BufferSizeParams(line) == Split(Capture(line.size)[1])
BufferSizes(line) == ResolveParams(BufferSizeParams(line), ParseWildcards)

\* C21: a buffer declaration gives a Buffer resource only when its @size
\* holds one expression and that expression resolves to exactly one positive
\* integer, which is the size of the resource.
C21_BufferSizeSingle ==
    (parsePc = "done" /\ parseIn.kind = BUF /\ parseOut # <<>>)
    => /\ Len(BufferSizeParams(parseIn)) = 1
       /\ BufferSizes(parseIn).ok
       /\ Len(BufferSizes(parseIn).v) = 1
       /\ BufferSizes(parseIn).v[1].d = 1 /\ BufferSizes(parseIn).v[1].n > 0
       /\ parseOut[1].size = BufferSizes(parseIn).v[1]

\* C22: a declaration of any kind that has both @group and @binding, with
\* @binding written before @group, is dropped: the parse has a resource for
\* at most the other declarations of the source.
C22_BindingBeforeGroupRejected ==
    (parsePc = "done" /\ parseIn.kind = "source" /\ parseOut.ok)
    => Len(parseOut.v.resources)
          <= Cardinality({i \in 1..Len(parseIn.decls) :
                             ~BindingBeforeGroup(parseIn.decls[i])})

\* the declaration is a resource of the parsed list and its line carries the
\* group and the binding of a resource of that name
IsPrefixed(declaration, resources) ==
    \E j \in 1..Len(resources) :
        /\ resources[j].name = declaration.name
        /\ declaration.prefix = <<[group |-> resources[j].group,
                                   binding |-> resources[j].binding]>>

\* C23: in the transformed code every declaration whose identifier is a
\* resource of the parsed list is prefixed with the group and the binding
\* allocated to that resource, with or without whitespace before the colon.
C23_DeclarationsPrefixed ==
    (parsePc = "done" /\ parseIn.kind = "source" /\ parseOut.ok)
    => \A i \in 1..Len(parseOut.v.code.declarations) :
           (\E j \in 1..Len(parseOut.v.resources) :
               parseOut.v.resources[j].name = parseOut.v.code.declarations[i].name)
           => IsPrefixed(parseOut.v.code.declarations[i], parseOut.v.resources)

\* C24: a resource of any kind has usedInBody true exactly when the
\* identifier of its declaration occurs as a whole word in a function body.
C24_UsedInBodyExact ==
    (parsePc = "done" /\ parseIn.kind = "source" /\ parseOut.ok)
    => \A j \in 1..Len(parseOut.v.resources) :
           \E i \in 1..Len(parseIn.decls) :
               /\ parseIn.decls[i].kind = parseOut.v.resources[j].resourceType
               /\ parseIn.decls[i].name = parseOut.v.resources[j].name
               /\ parseIn.decls[i].used = parseOut.v.resources[j].usedInBody

\* the resource parsed from declaration p of the source of SpecAlloc, whose
\* declarations all parse: the one of its kind with its index among the
\* declarations of the kind
IsResourceOfDecl(r, p) ==
    /\ r.resourceType = allocIn[p].kind
    /\ r.declarationIndex = Cardinality({q \in 1..(p - 1) : allocIn[q].kind = allocIn[p].kind})

\* the bindings written in a @binding decorator of a declaration of the group
ExplicitBindings(group) ==
    {allocIn[q].binding[1] : q \in {x \in 1..Len(allocIn) :
        allocIn[x].binding # <<>> /\ GroupOrDefault(allocIn[x].group) = group}}

\* C25: a declaration with an explicit @binding(n), n >= 0, keeps binding n
\* in the parsed list, and a declaration without @binding never receives a
\* binding written explicitly in its group.
C25_ExplicitBindingKept ==
    allocPc = "done" =>
        \A p \in 1..Len(allocIn) :
            \E k \in 1..Len(allocOut) :
                /\ IsResourceOfDecl(allocOut[k], p)
                /\ allocIn[p].binding # <<>> => allocOut[k].binding = allocIn[p].binding[1]
                /\ allocIn[p].binding = <<>>
                   => allocOut[k].binding \notin ExplicitBindings(allocOut[k].group)

\* the workgroup size a WGSL compiler reads in @workgroup_size(text): up to
\* three constant expressions, the missing ones being 1; Throw for a text
\* that is no list of constant expressions
WgslWorkgroupSize(text) ==
    IF \E i \in 1..Len(text) : text[i].t \in {"wc", "id"} THEN Throw
    ELSE IF Len(Split(text)) > 3 THEN Throw
    ELSE IF ~MapEvaluate(Split(text)).ok THEN Throw
    ELSE Ok(padTo3D(MapEvaluate(Split(text)).v))

\* C26: for an accepted compute source, the @workgroup_size injected in the
\* transformed code denotes metadata.workgroupSize of the same parse.
C26_InjectedWorkgroupSize ==
    (parsePc = "done" /\ parseIn.kind = "source" /\ parseOut.ok
     /\ parseOut.v.type = "compute")
    => /\ parseOut.v.code.workgroupSize # <<>>
       /\ WgslWorkgroupSize(parseOut.v.code.workgroupSize[1])
              = Ok(parseOut.v.metadata[1].workgroupSize)

\* C27: removeShader(s) removes s and nothing else: a list without s stays
\* as it is, and the other shaders keep their relative order.
C27_RemoveOnlyThat ==
    [][\A s \in ShaderNames :
          RemoveShader(s) => shaders' = SelectSeq(shaders, LAMBDA x : x # s)]_vars

\* the entries of the bind group of a shader that carry the binding of one of
\* its resources
EntriesOf(node, resource) ==
    {node.bindGroup[1].entries[i] : i \in {j \in 1..Len(node.bindGroup[1].entries) :
        node.bindGroup[1].entries[j].binding = resource.binding}}

\* the references of a shader that have an entry in its bind group
BoundReferences(node) ==
    {node.parsed.resources[i] : i \in {j \in 1..Len(node.parsed.resources) :
        /\ node.parsed.resources[j].resourceType = REF
        /\ node.bindGroup # <<>>
        /\ EntriesOf(node, node.parsed.resources[j]) # {}}}

\* C28: once the shaders the wildcard marked have reset, the object bound
\* for every reference of every shader is the one now stored under the
\* referenced name in the outputs of the referenced shader, and it is not
\* destroyed.
C28_ReferencesCurrent ==
    (\A n \in DOMAIN nodes : ~nodes[n].marked)
    => \A n \in DOMAIN nodes : \A r \in BoundReferences(nodes[n]) :
           \A entry \in EntriesOf(nodes[n], r) :
               /\ MapGetValue(nodes[r.node].outputs, r.ref) = <<entry.resource>>
               /\ entry.resource.id \notin device.destroyed

\* the uniform resources of the parsed metadata of a shader
UniformsOf(node) ==
    {i \in 1..Len(node.parsed.resources) : node.parsed.resources[i].resourceType = UNI}

\* C29: the uniformBuffers of a shader, which update() writes every frame,
\* hold exactly one buffer per uniform resource of the current metadata, the
\* one stored under its name, and none of them is destroyed.
C29_UniformBuffersMatch ==
    \A n \in DOMAIN nodes :
        /\ Len(nodes[n].uniformBuffers) = Cardinality(UniformsOf(nodes[n]))
        /\ \A i \in 1..Len(nodes[n].uniformBuffers) :
               nodes[n].uniformBuffers[i].id \notin device.destroyed
        /\ \A i \in UniformsOf(nodes[n]) :
               \E j \in 1..Len(nodes[n].uniformBuffers) :
                   MapGetValue(nodes[n].outputs, nodes[n].parsed.resources[i].name)
                       = <<nodes[n].uniformBuffers[j]>>

\* the binding written in front of the declaration of a name in the code:
\* <<>> when the declaration has no prefix
CodeBinding(code, name) ==
    {code.declarations[i].prefix : i \in {j \in 1..Len(code.declarations) :
        code.declarations[j].name = name}}

\* C30: the bindings of the entries of a bind group are those of the layout
\* it is created with, and the binding of each resource in the current
\* metadata is the one written in the code the pipeline is compiled from.
C30_BindingsAgree ==
    \A n \in DOMAIN nodes :
        /\ nodes[n].bindGroup # <<>>
           => {nodes[n].bindGroup[1].entries[i].binding :
                  i \in 1..Len(nodes[n].bindGroup[1].entries)}
                 = Range(nodes[n].bindGroup[1].layout)
        /\ nodes[n].pipeline # <<>>
           => \A i \in 1..Len(nodes[n].parsed.resources) :
                  CodeBinding(nodes[n].pipeline[1].code, nodes[n].parsed.resources[i].name)
                     = {<<[group |-> nodes[n].parsed.resources[i].group,
                           binding |-> nodes[n].parsed.resources[i].binding]>>}

\* the number of components of a field type, 0 for a type without defaults
Arity(type) ==
    CASE type = "f32" -> 1
      [] type = "vec2<f32>" -> 2
      [] type = "vec3<f32>" -> 3
      [] type = "vec4<f32>" -> 4
      [] OTHER -> 0

\* the sub-decorators of a uniform line that carry a value list
Given(line, name) ==
    SelectSeq(line.values, LAMBDA p : p.name = name /\ p.content # <<>> /\ p.content[1].t # ")")

\* the resolved components of the default of a field: Throw when an
\* expression of the list does not evaluate
DefaultOf(line, name) ==
    ResolveParams(Split(Given(line, name)[Len(Given(line, name))].content), ParseWildcards)

\* the field has a default of as many components as its type has
HasFittingDefault(line, field) ==
    /\ Given(line, field.name) # <<>>
    /\ CountOf(Given(line, field.name)[Len(Given(line, field.name))].content, ")") = 0
    /\ DefaultOf(line, field.name).ok
    /\ Len(DefaultOf(line, field.name).v) = Arity(field.type)

\* C8: a uniform declaration whose struct is defined yields a Uniform resource
\* exactly when every field of the struct has a default-value sub-decorator of
\* its name whose resolved components are as many as the field type has
\* (f32 1, vec2<f32> 2, vec3<f32> 3, vec4<f32> 4); defaults then holds, field
\* by field in struct order, the resolved components.
C8_UniformDefaults ==
    (parsePc = "done" /\ parseIn.kind = UNI /\ parseIn.struct # <<>>
        /\ \A i \in 1..Len(parseIn.values) : CountOf(parseIn.values[i].content, ")") = 0)
    => LET fields == parseIn.struct[1]
       IN  IF \A i \in 1..Len(fields) : HasFittingDefault(parseIn, fields[i])
           THEN /\ parseOut # <<>>
                /\ parseOut[1].defaults
                     = [i \in 1..Len(fields) |->
                           <<fields[i].name, DefaultOf(parseIn, fields[i].name).v>>]
           ELSE parseOut = <<>>

\* @color(0.05, 0.7, 0.4) on the vec3<f32> field color was parsed
C8_Witness ==
    /\ parsePc = "done"
    /\ parseIn.kind = UNI
    /\ parseIn.struct = <<<<Field("color", "vec3<f32>")>>>>
    /\ parseIn.values = <<Nested("color", List3(Num(1, 20), Num(7, 10), Num(2, 5)))>>
    /\ parseOut # <<>>
    /\ parseOut[1].defaults = <<<<"color", <<Rat(1, 20), Rat(7, 10), Rat(2, 5)>>>>>>

\* the components of the @compute decorator of a source
ComputeParts(src) == Split(src.entry.compute[1])

\* the number a component stands for: <<>> unless it evaluates, alone, to
\* exactly one number
ComponentValue(part) ==
    LET value == evaluateWildcardExpression(part, ParseWildcards)
    IN  IF value.ok /\ Len(value.v) = 1 THEN value.v ELSE <<>>

\* a source whose only entry decorator is @compute with 1 to 3 components
IsComputeSource(src) ==
    /\ src.kind = "source"
    /\ src.entry.fragment = <<>> /\ src.entry.workgroupSize = <<>>
    /\ src.entry.compute # <<>>
    /\ CountOf(src.entry.compute[1], ")") = 0
    /\ Len(ComputeParts(src)) \in 1..3
    /\ \A i \in 1..Len(ComputeParts(src)) : ComponentValue(ComputeParts(src)[i]) # <<>>

DefaultWorkgroupSize(k) ==
    CASE k = 1 -> <<R(64), R(1), R(1)>>
      [] k = 2 -> <<R(8), R(8), R(1)>>
      [] k = 3 -> <<R(4), R(4), R(4)>>

\* C10: a source whose compute decorator has k components (k in 1..3) and
\* that has no @workgroup_size parses to kind compute, with threadCount the
\* components followed by 1s up to length 3 and workgroupSize the default of
\* dimensionality k ([64,1,1], [8,8,1], [4,4,4]).
C10_ComputeDefaults ==
    (parsePc = "done" /\ IsComputeSource(parseIn))
    => LET parts == ComputeParts(parseIn)
           k == Len(parts)
       IN  /\ parseOut.ok
           /\ parseOut.v.type = "compute"
           /\ parseOut.v.metadata[1].threadCount
                = [i \in 1..3 |-> IF i <= k THEN ComponentValue(parts[i])[1] ELSE R(1)]
           /\ parseOut.v.metadata[1].workgroupSize = DefaultWorkgroupSize(k)

(***************************************************************************)
(* Claims about parseShader as a whole (SpecParse).                        *)
(***************************************************************************)
\* the declaration parses on its own
IsWellFormed(line) == ResourceOf(line, 0, ParseWildcards) # <<>>

\* the source without its malformed declarations
WellFormedOnly(src) ==
    [src EXCEPT !.decls = SelectSeq(@, LAMBDA line : IsWellFormed(line))]

\* the same resources in the same order, the position of the declaration
\* among the lines of its kind apart
SameButIndex(a, b) ==
    /\ Len(a) = Len(b)
    /\ \A i \in 1..Len(a) :
          SameResource([a[i] EXCEPT !.declarationIndex = 0],
                       [b[i] EXCEPT !.declarationIndex = 0])

\* C11: a malformed declaration is dropped alone: parseShader of a source
\* throws exactly when it throws for the source without its malformed
\* declarations, and otherwise returns one resource per well-formed
\* declaration, the resources that source without the malformed ones gives.
C11_MalformedDroppedAlone ==
    (parsePc = "done" /\ parseIn.kind = "source")
    => LET clean == parseShader(WellFormedOnly(parseIn), ParseWildcards)
       IN  /\ parseOut.ok = clean.ok
           /\ parseOut.ok =>
                 /\ Len(parseOut.v.resources) = Len(WellFormedOnly(parseIn).decls)
                 /\ SameButIndex(parseOut.v.resources, clean.v.resources)

\* a source with a malformed declaration before a well-formed one was parsed
\* and has the one resource
C11_Witness ==
    /\ parsePc = "done"
    /\ parseIn.kind = "source"
    /\ Len(parseIn.decls) = 2
    /\ ~IsWellFormed(parseIn.decls[1])
    /\ IsWellFormed(parseIn.decls[2])
    /\ parseIn.decls[1].kind = parseIn.decls[2].kind
    /\ parseOut.ok
    /\ Len(parseOut.v.resources) = 1

HasCompute(src) == Capture(src.entry.compute) # <<>>
HasFragment(src) == src.entry.fragment # <<>>

\* the entry-point metadata of the source cannot be extracted
MetadataFails(src) ==
    LET resources == parseResources(src.decls, ParseWildcards)
    IN  \/ HasCompute(src) /\ ~parseComputeMetadata(src.entry, ParseWildcards).ok
        \/ HasFragment(src)
           /\ ~parseFragmentMetadata(src.entry, resources, ParseWildcards).ok

\* a ShaderMetadata with all its parts: the type, the metadata of a compute
\* or fragment shader, and the resources of the source
IsCompleteMetadata(src, shader) ==
    /\ shader.type = (IF HasCompute(src) THEN "compute"
                      ELSE IF HasFragment(src) THEN "fragment" ELSE "resource")
    /\ Len(shader.metadata) = (IF shader.type = "resource" THEN 0 ELSE 1)
    /\ SameButIndex(shader.resources, parseResources(src.decls, ParseWildcards))
    /\ \A i \in 1..Len(shader.resources) :
          shader.resources[i].declarationIndex
              = parseResources(src.decls, ParseWildcards)[i].declarationIndex

\* C12: parseShader fails, returning nothing, exactly when the source has
\* both a compute and a fragment entry decorator or its entry-point metadata
\* cannot be extracted; otherwise it returns a complete ShaderMetadata.
C12_AtomicParse ==
    (parsePc = "done" /\ parseIn.kind = "source")
    => /\ ~parseOut.ok <=> (HasCompute(parseIn) /\ HasFragment(parseIn))
                            \/ MetadataFails(parseIn)
       /\ ~parseOut.ok => parseOut.v = <<>>
       /\ parseOut.ok => IsCompleteMetadata(parseIn, parseOut.v)

\* a source with a declaration that parses and with both entry decorators,
\* each of them valid on its own, was parsed and the call failed
C12_Witness ==
    /\ parsePc = "done"
    /\ parseIn.kind = "source"
    /\ HasCompute(parseIn) /\ HasFragment(parseIn)
    /\ parseComputeMetadata(parseIn.entry, ParseWildcards).ok
    /\ parseResources(parseIn.decls, ParseWildcards) # <<>>
    /\ ~parseOut.ok

(***************************************************************************)
(* Claims about the order of the returned resources (SpecAlloc).           *)
(***************************************************************************)
\* C13: the list returned by binding allocation is in ascending order of
\* group and, within a group, in ascending order of binding, whatever the
\* order and the kinds of the declarations.
C13_SortedByGroupBinding ==
    allocPc = "done" =>
        \A i \in 1..(Len(allocOut) - 1) :
            \/ allocOut[i].group < allocOut[i + 1].group
            \/ /\ allocOut[i].group = allocOut[i + 1].group
               /\ allocOut[i].binding <= allocOut[i + 1].binding

\* three declarations were allocated whose order before the sort was neither
\* by group nor by binding: a buffer of group 1 declared first, then a
\* texture of group 0 with an explicit binding 2, then an auto buffer of group 0
C13_Witness ==
    /\ allocPc = "done"
    /\ Len(allocIn) = 3
    /\ <<allocIn[1].kind, allocIn[2].kind, allocIn[3].kind>> = <<BUF, TEX, BUF>>
    /\ <<allocIn[1].group, allocIn[2].group, allocIn[3].group>> = <<<<1>>, <<>>, <<>>>>
    /\ allocIn[2].binding = <<2>>
    /\ allocIn[3].binding = <<>>
    /\ <<allocOut[1].resourceType, allocOut[2].resourceType, allocOut[3].resourceType>>
           = <<BUF, TEX, BUF>>
    /\ <<allocOut[1].group, allocOut[2].group, allocOut[3].group>> = <<0, 0, 1>>
    /\ <<allocOut[1].binding, allocOut[2].binding>> = <<0, 2>>

\* resource r is what the declaration gives, the binding apart
ComesFrom(r, line) ==
    /\ r.resourceType = line.kind
    /\ SameResource([r EXCEPT !.binding = -1],
                    [ResourceOf(line, r.declarationIndex, <<>>)[1] EXCEPT !.binding = -1])

\* the ways to tell which returned resource each declaration gave
Origins ==
    {f \in [1..Len(allocIn) -> 1..Len(allocOut)] :
        /\ \A i, j \in 1..Len(allocIn) : i # j => f[i] # f[j]
        /\ \A i \in 1..Len(allocIn) : ComesFrom(allocOut[f[i]], allocIn[i])}

\* C15 as stated: of two declarations the earlier one has the smaller
\* declarationIndex, whatever their kinds.
C15_IndexIncreases ==
    allocPc = "done" =>
        \E f \in Origins :
            \A i, j \in 1..Len(allocIn) :
                i < j => allocOut[f[i]].declarationIndex < allocOut[f[j]].declarationIndex

\* C15 amended: of two declarations of the same kind the earlier one has the
\* smaller declarationIndex; the index counts the declarations of that kind.
C15_IndexIncreasesWithinKind ==
    allocPc = "done" =>
        \E f \in Origins :
            \A i, j \in 1..Len(allocIn) :
                /\ (i < j /\ allocIn[i].kind = allocIn[j].kind)
                      => allocOut[f[i]].declarationIndex < allocOut[f[j]].declarationIndex
                /\ allocOut[f[i]].declarationIndex
                      = Cardinality({k \in 1..(i - 1) : allocIn[k].kind = allocIn[i].kind})

\* a texture, a buffer and a second texture were parsed: the textures have
\* the indices 0 and 1 and the buffer has the index 0
C15_Witness ==
    /\ allocPc = "done"
    /\ Len(allocIn) = 3
    /\ <<allocIn[1].kind, allocIn[2].kind, allocIn[3].kind>> = <<TEX, BUF, TEX>>
    /\ {<<allocOut[k].resourceType, allocOut[k].declarationIndex>> : k \in 1..3}
           = {<<TEX, 0>>, <<BUF, 0>>, <<TEX, 1>>}

(***************************************************************************)
(* Claims about parseShader across calls (SpecHot).                        *)
(***************************************************************************)
\* C16: the value of every wildcard has between 1 and 4 components, after
\* construction and after any call of set.
C16_ValueHasOneToFour ==
    \A i \in 1..Len(hotWild) : Len(hotWild[i].value) \in 1..4

\* the names under which the shader holds a GPU object of its own
OutputNames == {o.name : o \in outputs} \ {"canvas"}

\* the names of the resources of the current parse that are no references
OwnedNames ==
    {parsed.resources[i].name :
        i \in {k \in 1..Len(parsed.resources) : parsed.resources[k].resourceType # REF}}

\* C17: after the construction of a shader and after every reset, outputs
\* has an entry under a name other than canvas exactly when the current
\* parse has a resource of that name that is no reference, and no entry was
\* created for a reference.
C17_OutputsMatchResources ==
    /\ OutputNames = OwnedNames
    /\ \A o \in outputs : o.object # REF

\* a parse of the shader is held: the constructor or reset returned
HoldsParse == hotPc \in {"constructed", "reloaded"}

\* the fragment shader draws on a canvas whose size the source does not give
IsPlainCanvas(src) ==
    /\ ~HasCompute(src)
    /\ HasFragment(src)
    /\ src.entry.fragment[1].canvas
    /\ Capture(src.entry.fragment[1].size) = <<>>

WithoutCanvasSize(shader) == [shader EXCEPT !.metadata[1].canvasSize = <<>>]

====
